---- MODULE Spec2Model ----
(***************************************************************************)
(* Payment-Analytics-ETL: the reconciliation query generator               *)
(* (src/src/query_generator.py) and the column cleaners                    *)
(* (src/src/data_cleaner.py).                                              *)
(*                                                                         *)
(* The generated SQL is modelled by its relational meaning: tables are     *)
(* sequences of rows (bags), SQL values are nullable (<<>> is NULL, <<v>>  *)
(* is the value v), and predicates are three-valued.  Status keywords the  *)
(* SQL inspects are sequences of one-character strings; the text the       *)
(* generator writes and the cells the cleaners read are strings.  Amounts  *)
(* are NUMERIC(18,2) held in hundredths.                                   *)
(***************************************************************************)
EXTENDS Integers, Sequences, FiniteSets, TLC

VARIABLES
    phase,                   \* which operation sequence this behaviour runs, and how far it is
    gateway_rows,            \* rows of the four gateway tables, already joined to metabase and portal
    bank,                    \* rows of the bank table
    include_reconciliation,  \* generator parameter
    payment_analysis_view,   \* rows of the view once it has been created and read
    selected_fields,         \* generator parameter: source key -> list of field names
    date_filter,             \* generator parameter: None or {enabled, start_date, end_date}
    limit,                   \* generator parameter: None or an integer
    return_distinct_orders,  \* generator parameter
    validated_select_aliases, \* the column list of the final SELECT
    query,                   \* the text generate_payment_analysis_query returns, line by line
    data_type,               \* the py_type of a column: the key of its cleaner in DATA_CLEANERS
    series,                  \* the column handed to the cleaner
    options,                 \* the cleaning options: the source of the file
    result,                  \* the column the cleaner returns
    column_config,           \* DataFrameTransformer.column_config, in the order of the dictionary
    chunk,                   \* the frame handed to transform: one batch of a file
    result_df,               \* the frame transform returns
    failed_columns,          \* DataFrameTransformer.failed_columns
    conformed_chunk,         \* the frame _ensure_schema_conformance returns
    file_headers,            \* the headers of the file FileProcessor.process_file reads
    batch_number,            \* the batches of the file processed so far
    error_count,             \* FileProcessor.error_count
    total_rows,              \* FileProcessor.total_rows
    written,                 \* the rows handed to the Parquet writer, batch by batch
    col_name,                \* generate_config: the header of a column of a file
    mapped_name,             \* generate_config: the canonical name of the column
    guessed_type,            \* generate_config: the py_type guessed for the column
    files,                   \* generate_config: the files of a source, in the order of its list
    columns,                 \* generate_config: out[src]["columns"], the registry of the source
    run_config,              \* DataCleanerApp.run, config: source -> the input files of the source
    process_based,           \* DataCleanerApp.process_based
    max_workers,             \* DataCleanerApp.max_workers
    corrupt,                 \* the input files a batch of which cannot be processed
    worker,                  \* how far the worker of each task (source, position of the file) is
    disk,                    \* the Parquet files of the output directory
    touched,                 \* which task wrote, rewrote or removed which output file
    parquet_files,           \* DataCleanerApp.parquet_files
    source_index,            \* thread mode: the source of the loop of run
    call,                    \* execute_query_with_timeout: timeout, engine, and what the query does
    elapsed,                 \* seconds since the query was submitted
    query_thread,            \* the thread of the executor that runs _execute_query
    caller,                  \* where the caller of execute_query_with_timeout is
    returned,                \* what execute_query_with_timeout returned
    statements,              \* run_sql_query: the statements of the script, each line by line
    stmt_index,              \* run_sql_query: the statements executed so far
    executed,                \* how each statement was classified and executed
    view_created,            \* run_sql_query: view_created
    view_name                \* run_sql_query: view_name

generator_vars ==
    <<selected_fields, date_filter, limit, return_distinct_orders, validated_select_aliases, query>>

table_vars == <<gateway_rows, bank, payment_analysis_view>>

cleaner_vars == <<data_type, series, options, result>>

transformer_vars == <<column_config, chunk, result_df, failed_columns, conformed_chunk>>

processor_vars == <<file_headers, batch_number, error_count, total_rows, written>>

registry_vars == <<col_name, mapped_name, guessed_type, files, columns>>

app_vars ==
    <<run_config, process_based, max_workers, corrupt, worker, disk, touched, parquet_files,
      source_index>>

executor_vars == <<call, elapsed, query_thread, caller, returned>>

runner_vars == <<statements, stmt_index, executed, view_created, view_name>>

service_vars == <<app_vars, executor_vars, runner_vars>>

pipeline_vars == <<transformer_vars, processor_vars, registry_vars, service_vars>>

vars == <<phase, include_reconciliation, table_vars, generator_vars, cleaner_vars, pipeline_vars>>

\* the parts of the state a behaviour does not use keep these values
GeneratorIdle ==
    /\ selected_fields = <<>>
    /\ date_filter = <<>>
    /\ limit = <<>>
    /\ return_distinct_orders = FALSE
    /\ validated_select_aliases = <<>>
    /\ query = <<>>

TablesIdle ==
    /\ gateway_rows = <<>>
    /\ bank = <<>>
    /\ payment_analysis_view = <<>>

CleanerIdle ==
    /\ data_type = ""
    /\ series = <<>>
    /\ options = <<>>
    /\ result = <<>>

TransformerIdle ==
    /\ column_config = <<>>
    /\ chunk = <<>>
    /\ result_df = <<>>
    /\ failed_columns = <<>>
    /\ conformed_chunk = <<>>

ProcessorIdle ==
    /\ file_headers = {}
    /\ batch_number = 0
    /\ error_count = 0
    /\ total_rows = 0
    /\ written = <<>>

RegistryIdle ==
    /\ col_name = ""
    /\ mapped_name = ""
    /\ guessed_type = ""
    /\ files = <<>>
    /\ columns = <<>>

AppIdle ==
    /\ run_config = <<>>
    /\ process_based = FALSE
    /\ max_workers = 0
    /\ corrupt = {}
    /\ worker = <<>>
    /\ disk = {}
    /\ touched = {}
    /\ parquet_files = <<>>
    /\ source_index = 0

ExecutorIdle ==
    /\ call = <<>>
    /\ elapsed = 0
    /\ query_thread = ""
    /\ caller = ""
    /\ returned = <<>>

RunnerIdle ==
    /\ statements = <<>>
    /\ stmt_index = 0
    /\ executed = <<>>
    /\ view_created = FALSE
    /\ view_name = <<>>

ServiceIdle == AppIdle /\ ExecutorIdle /\ RunnerIdle

PipelineIdle == TransformerIdle /\ ProcessorIdle /\ RegistryIdle /\ ServiceIdle

(***************************************************************************)
(* Bounds of the model.                                                    *)
(***************************************************************************)
MaxGatewayRows == 2
MaxBankRows == 2

(***************************************************************************)
(* SQL values and three-valued logic.                                      *)
(***************************************************************************)
Null == <<>>
Some(v) == <<v>>
Val(x) == x[1]

TRUE3 == "true"
FALSE3 == "false"
NULL3 == "null"

Bool3(b) == IF b THEN TRUE3 ELSE FALSE3
Not3(a) == IF a = NULL3 THEN NULL3 ELSE IF a = TRUE3 THEN FALSE3 ELSE TRUE3
And3(a, b) ==
    IF a = FALSE3 \/ b = FALSE3 THEN FALSE3
    ELSE IF a = NULL3 \/ b = NULL3 THEN NULL3 ELSE TRUE3
Or3(a, b) ==
    IF a = TRUE3 \/ b = TRUE3 THEN TRUE3
    ELSE IF a = NULL3 \/ b = NULL3 THEN NULL3 ELSE FALSE3
\* x = y on nullable values
Eq3(x, y) == IF x = Null \/ y = Null THEN NULL3 ELSE Bool3(x = y)
\* x IS NOT NULL
IsNotNull(x) == Bool3(x # Null)

\* UPPER(text)
UpperChar(c) ==
    CASE c = "a" -> "A" [] c = "b" -> "B" [] c = "c" -> "C" [] c = "d" -> "D"
      [] c = "e" -> "E" [] c = "f" -> "F" [] c = "g" -> "G" [] c = "h" -> "H"
      [] c = "i" -> "I" [] c = "j" -> "J" [] c = "k" -> "K" [] c = "l" -> "L"
      [] c = "m" -> "M" [] c = "n" -> "N" [] c = "o" -> "O" [] c = "p" -> "P"
      [] c = "q" -> "Q" [] c = "r" -> "R" [] c = "s" -> "S" [] c = "t" -> "T"
      [] c = "u" -> "U" [] c = "v" -> "V" [] c = "w" -> "W" [] c = "x" -> "X"
      [] c = "y" -> "Y" [] c = "z" -> "Z" [] OTHER -> c
Upper(x) == IF x = Null THEN Null ELSE Some([i \in DOMAIN Val(x) |-> UpperChar(Val(x)[i])])

\* text contains kw as a substring
Contains(s, kw) ==
    \E i \in 1..(Len(s) - Len(kw) + 1) : SubSeq(s, i, i + Len(kw) - 1) = kw
\* x LIKE '%kw%'
Like3(x, kw) == IF x = Null THEN NULL3 ELSE Bool3(Contains(Val(x), kw))
\* x IN (a, b)
In3(x, S) == IF x = Null THEN NULL3 ELSE Bool3(Val(x) \in S)

KW_AUTHORISATION == <<"A", "U", "T", "H", "O", "R", "I", "S", "A", "T", "I", "O", "N">>
KW_AUTHORIZATION == <<"A", "U", "T", "H", "O", "R", "I", "Z", "A", "T", "I", "O", "N">>
KW_CAPTURE == <<"C", "A", "P", "T", "U", "R", "E">>
KW_REFUND == <<"R", "E", "F", "U", "N", "D">>
KW_VOID == <<"V", "O", "I", "D">>
KW_CANCEL == <<"C", "A", "N", "C", "E", "L">>
KW_CANCELED == <<"C", "A", "N", "C", "E", "L", "E", "D">>
KW_APPROVED == <<"A", "P", "P", "R", "O", "V", "E", "D">>
KW_FULLY_REFUNDED == <<"F", "U", "L", "L", "Y", "_", "R", "E", "F", "U", "N", "D", "E", "D">>
KW_PARTIALLY_REFUNDED == <<"P", "A", "R", "T", "I", "A", "L", "L", "Y", "_", "R", "E", "F", "U", "N", "D", "E", "D">>
KW_DECLINED == <<"D", "E", "C", "L", "I", "N", "E", "D">>
KW_FAILED == <<"F", "A", "I", "L", "E", "D">>
KW_AUTHORIZE == <<"A", "U", "T", "H", "O", "R", "I", "Z", "E">>

\* status texts found in the gateway exports
ST_Authorisation == <<"A", "u", "t", "h", "o", "r", "i", "s", "a", "t", "i", "o", "n">>
ST_Authorization == <<"A", "u", "t", "h", "o", "r", "i", "z", "a", "t", "i", "o", "n">>
ST_Capture == <<"C", "a", "p", "t", "u", "r", "e">>
ST_Approved == <<"A", "p", "p", "r", "o", "v", "e", "d">>
ST_Refund == <<"R", "e", "f", "u", "n", "d">>
ST_Void == <<"V", "o", "i", "d">>
ST_Cancel == <<"C", "a", "n", "c", "e", "l">>
ST_Declined == <<"D", "e", "c", "l", "i", "n", "e", "d">>
ST_fully_refunded == <<"f", "u", "l", "l", "y", "_", "r", "e", "f", "u", "n", "d", "e", "d">>
ST_canceled == <<"c", "a", "n", "c", "e", "l", "e", "d">>
ST_approved == <<"a", "p", "p", "r", "o", "v", "e", "d">>

(***************************************************************************)
(* gateway_analysis: one SELECT per gateway, UNION ALL.                    *)
(*                                                                         *)
(* A gateway row r is a row of FROM <table> JOIN metabase JOIN portal that *)
(* passed the optional date_filter_clause:                                 *)
(*   gw        the table it comes from                                     *)
(*   order_id, txn_id (payment_online_transaction_id), amount, status,     *)
(*   tdate (the gateway's transaction date), auth, rrn, resp, txn_type     *)
(* For tamara, amount is txn_amount, tdate is txn_created_at_gmt_03_00 and *)
(* rrn is tamara_txn_reference, as gateways_config maps them.  The field   *)
(* src is the row's position in gateway_rows (its identity).               *)
(***************************************************************************)
gateway_names_ordered == <<"checkout_v1", "checkout_v2", "payfort", "tamara">>

\* gateways_config[gw]["auth_code_col"]
AuthCodeCol(gw, r) == IF gw = "tamara" THEN Some("") ELSE r.auth
\* gateways_config[gw]["response_code_col"]
ResponseCodeCol(gw, r) == IF gw \in {"payfort", "tamara"} THEN Some("") ELSE r.resp

\* gateways_config[gw]["is_auth_expr"]
IsAuthExpr(gw, r) ==
    CASE gw \in {"checkout_v1", "checkout_v2"} ->
            Or3(Like3(Upper(r.status), KW_AUTHORISATION), Like3(Upper(r.status), KW_AUTHORIZATION))
      [] gw = "payfort" -> Like3(Upper(r.status), KW_AUTHORIZATION)
      [] gw = "tamara" -> Eq3(r.txn_type, Some(KW_AUTHORIZE))
\* gateways_config[gw]["is_capture_expr"]
IsCaptureExpr(gw, r) ==
    IF gw = "tamara" THEN FALSE3 ELSE Like3(Upper(r.status), KW_CAPTURE)
\* gateways_config[gw]["is_refund_expr"]
IsRefundExpr(gw, r) ==
    IF gw = "tamara" THEN Eq3(r.txn_type, Some(KW_REFUND)) ELSE Like3(Upper(r.status), KW_REFUND)
\* gateways_config[gw]["is_void_expr"]
IsVoidExpr(gw, r) ==
    IF gw = "tamara" THEN Eq3(r.txn_type, Some(KW_CANCEL))
    ELSE Or3(Like3(Upper(r.status), KW_VOID), Eq3(Upper(r.status), Some(KW_CANCEL)))

\* one row of gateway_select_template filled in for gateway gw
GatewaySelect(gw, r, src) ==
    [ src |-> src,
      gateway_source |-> gw,
      gateway_order_id |-> r.order_id,
      gateway_transaction_id |-> r.txn_id,
      amount |-> r.amount,
      status |-> r.status,
      transaction_date |-> r.tdate,
      authorization_code |-> AuthCodeCol(gw, r),
      rrn |-> r.rrn,
      response_code |-> ResponseCodeCol(gw, r),
      is_auth |-> IsAuthExpr(gw, r),
      is_capture |-> IsCaptureExpr(gw, r),
      is_refund |-> IsRefundExpr(gw, r),
      is_void |-> IsVoidExpr(gw, r) ]

GatewaySection(gw, rows) ==
    LET idx == SelectSeq([i \in 1..Len(rows) |-> i], LAMBDA i : rows[i].gw = gw)
    IN  [k \in 1..Len(idx) |-> GatewaySelect(gw, rows[idx[k]], idx[k])]

\* the gateway_analysis CTE
GatewayAnalysis(rows) ==
    GatewaySection(gateway_names_ordered[1], rows) \o GatewaySection(gateway_names_ordered[2], rows)
        \o GatewaySection(gateway_names_ordered[3], rows) \o GatewaySection(gateway_names_ordered[4], rows)

(***************************************************************************)
(* ranked_transactions: window aggregates over                             *)
(* PARTITION BY gateway_order_id, gateway_transaction_id.                  *)
(***************************************************************************)
\* rows of one partition (NULL keys fall into one partition)
SameGroup(a, b) ==
    a.gateway_order_id = b.gateway_order_id /\ a.gateway_transaction_id = b.gateway_transaction_id

\* collation order of the identifier texts the model uses
Collate(s) ==
    CASE s = "" -> 0 [] s = "A1" -> 1 [] s = "A2" -> 2 [] s = "C1" -> 3 [] s = "C2" -> 4

\* MAX(...) over a set of nullable texts: NULLs are ignored, NULL when nothing is left
MaxText(S) ==
    LET nn == {x \in S : x # Null}
    IN  IF nn = {} THEN Null
        ELSE CHOOSE x \in nn : \A y \in nn : Collate(Val(y)) <= Collate(Val(x))

\* MAX(CASE WHEN ga.is_auth THEN 1 ELSE 0 END) OVER (PARTITION BY ...)
HasAuthInGroup(ga, row) ==
    IF \E j \in 1..Len(ga) : SameGroup(ga[j], row) /\ ga[j].is_auth = TRUE3 THEN 1 ELSE 0
\* MAX(CASE WHEN ga.is_capture THEN 1 ELSE 0 END) OVER (PARTITION BY ...)
HasCaptureInGroup(ga, row) ==
    IF \E j \in 1..Len(ga) : SameGroup(ga[j], row) /\ ga[j].is_capture = TRUE3 THEN 1 ELSE 0
\* MAX(CASE WHEN ga.is_auth THEN ga.rrn END) OVER (PARTITION BY ...)
AuthRrnInGroup(ga, row) ==
    MaxText({ga[j].rrn : j \in {k \in 1..Len(ga) : SameGroup(ga[k], row) /\ ga[k].is_auth = TRUE3}})
\* MAX(CASE WHEN ga.is_auth THEN ga.authorization_code END) OVER (PARTITION BY ...)
AuthAuthorizationCodeInGroup(ga, row) ==
    MaxText({ga[j].authorization_code :
                j \in {k \in 1..Len(ga) : SameGroup(ga[k], row) /\ ga[k].is_auth = TRUE3}})

\* the ranked_transactions CTE
RankedTransactions(ga) ==
    [i \in 1..Len(ga) |->
        ga[i] @@ [ has_auth_in_group |-> HasAuthInGroup(ga, ga[i]),
                   has_capture_in_group |-> HasCaptureInGroup(ga, ga[i]),
                   auth_rrn_in_group |-> AuthRrnInGroup(ga, ga[i]),
                   auth_authorization_code_in_group |-> AuthAuthorizationCodeInGroup(ga, ga[i]) ]]

(***************************************************************************)
(* transaction_with_analysis: merge, classification, filter.               *)
(***************************************************************************)
\* rt.is_capture AND rt.has_auth_in_group = 1 AND rt.has_capture_in_group = 1
MergedCapture(rt) ==
    And3(rt.is_capture, And3(Bool3(rt.has_auth_in_group = 1), Bool3(rt.has_capture_in_group = 1)))

\* a merge that keeps the capture's own rrn
FinalRrn_OwnOnly(rt) == rt.rrn
FinalRrn(rt) == IF MergedCapture(rt) = TRUE3 THEN rt.auth_rrn_in_group ELSE rt.rrn
FinalAuthorizationCode(rt) ==
    IF MergedCapture(rt) = TRUE3 THEN rt.auth_authorization_code_in_group ELSE rt.authorization_code

\* rt.response_code = '10000'
Code10000(rt) == Eq3(rt.response_code, Some("10000"))
\* rt.response_code = '10000' OR UPPER(rt.status) = 'APPROVED'
ApprovedOrCode(rt) == Or3(Code10000(rt), Eq3(Upper(rt.status), Some(KW_APPROVED)))
\* rt.response_code = '10000' OR UPPER(rt.status) IN ('FULLY_REFUNDED', 'PARTIALLY_REFUNDED')
RefundSucceeded(rt) ==
    Or3(Code10000(rt), In3(Upper(rt.status), {KW_FULLY_REFUNDED, KW_PARTIALLY_REFUNDED}))
\* rt.response_code = '10000' OR UPPER(rt.status) = 'CANCELED'
VoidSucceeded(rt) == Or3(Code10000(rt), Eq3(Upper(rt.status), Some(KW_CANCELED)))
\* rt.is_void OR UPPER(rt.status) = 'CANCEL'
VoidBranch(rt) == Or3(rt.is_void, Eq3(Upper(rt.status), Some(KW_CANCEL)))

\* 'text (' || rt.response_code || ')'
ConcatCode(prefix, rt) ==
    IF rt.response_code = Null THEN Null ELSE Some(<<prefix, Val(rt.response_code), ")">>)

\* the transaction_analysis CASE
TransactionAnalysis(rt) ==
    IF rt.is_refund = TRUE3 THEN
        (IF RefundSucceeded(rt) = TRUE3 THEN Some(<<"Refund Successful">>)
         ELSE Some(<<"Refund Failed/Pending">>))
    ELSE IF VoidBranch(rt) = TRUE3 THEN
        (IF VoidSucceeded(rt) = TRUE3 THEN Some(<<"Void Successful">>)
         ELSE Some(<<"Void Failed/Pending">>))
    ELSE IF rt.is_capture = TRUE3 THEN
        (IF rt.has_auth_in_group = 0 THEN
            (IF ApprovedOrCode(rt) = TRUE3 THEN Some(<<"Capture Successful (auth_less)">>)
             ELSE Some(<<"Capture Failed/Pending (auth_less)">>))
         ELSE IF ApprovedOrCode(rt) = TRUE3 THEN
            (IF rt.has_auth_in_group = 1 THEN Some(<<"Capture Successful (Authorisation Merged)">>)
             ELSE Some(<<"Capture Successful">>))
         ELSE ConcatCode("Capture Failed/Pending (Check Response: ", rt))
    ELSE IF rt.is_auth = TRUE3 THEN
        (IF ApprovedOrCode(rt) = TRUE3 THEN Some(<<"Authorisation Successful">>)
         ELSE ConcatCode("Authorisation Failed (Check Response: ", rt))
    ELSE IF Code10000(rt) = TRUE3 THEN Some(<<"General Success (Code 10000)">>)
    ELSE IF Eq3(Upper(rt.status), Some(KW_APPROVED)) = TRUE3 THEN Some(<<"General Success (Approved)">>)
    ELSE IF And3(Not3(Code10000(rt)),
                 And3(IsNotNull(rt.response_code), Not3(Eq3(rt.response_code, Some(""))))) = TRUE3
        THEN ConcatCode("General Failure (Code: ", rt)
    ELSE IF In3(Upper(rt.status), {KW_DECLINED, KW_FAILED}) = TRUE3
        THEN Some(<<"General Failure (Declined/Failed)">>)
    ELSE Some(<<"Unknown/Incomplete Status">>)

\* the inner CASE of transaction_outcome
OutcomeCase(rt) ==
    IF rt.is_refund = TRUE3 THEN (IF RefundSucceeded(rt) = TRUE3 THEN "Success" ELSE "Failure")
    ELSE IF VoidBranch(rt) = TRUE3 THEN (IF VoidSucceeded(rt) = TRUE3 THEN "Success" ELSE "Failure")
    ELSE IF rt.is_capture = TRUE3 THEN (IF ApprovedOrCode(rt) = TRUE3 THEN "Success" ELSE "Failure")
    ELSE IF rt.is_auth = TRUE3 THEN (IF ApprovedOrCode(rt) = TRUE3 THEN "Success" ELSE "Failure")
    ELSE IF Code10000(rt) = TRUE3 THEN "Success"
    ELSE IF Eq3(Upper(rt.status), Some(KW_APPROVED)) = TRUE3 THEN "Success"
    ELSE "Failure"

\* the transaction_outcome column
TransactionOutcome(rt) == IF OutcomeCase(rt) = "Success" THEN "Success" ELSE "Failure"

\* NOT (rt.is_auth AND rt.has_auth_in_group = 1 AND rt.has_capture_in_group = 1)
NotMergedAuth(rt) ==
    Not3(And3(rt.is_auth, And3(Bool3(rt.has_auth_in_group = 1), Bool3(rt.has_capture_in_group = 1))))

\* the outcome CASE as the WHERE clause writes it out again
WhereOutcome(rt) ==
    IF (IF rt.is_refund = TRUE3 THEN (IF RefundSucceeded(rt) = TRUE3 THEN "Success" ELSE "Failure")
        ELSE IF VoidBranch(rt) = TRUE3 THEN (IF VoidSucceeded(rt) = TRUE3 THEN "Success" ELSE "Failure")
        ELSE IF rt.is_capture = TRUE3 THEN (IF ApprovedOrCode(rt) = TRUE3 THEN "Success" ELSE "Failure")
        ELSE IF rt.is_auth = TRUE3 THEN (IF ApprovedOrCode(rt) = TRUE3 THEN "Success" ELSE "Failure")
        ELSE IF Code10000(rt) = TRUE3 THEN "Success"
        ELSE IF Eq3(Upper(rt.status), Some(KW_APPROVED)) = TRUE3 THEN "Success"
        ELSE "Failure") = "Success"
    THEN "Success" ELSE "Failure"

\* a WHERE clause without the outcome filter
WhereClause_NoOutcome(rt) == NotMergedAuth(rt)
\* the WHERE clause of transaction_with_analysis
WhereClause(rt) == And3(NotMergedAuth(rt), Bool3(WhereOutcome(rt) = "Success"))

\* the transaction_with_analysis CTE
TransactionWithAnalysis(rts) ==
    LET kept == SelectSeq(rts, LAMBDA rt : WhereClause(rt) = TRUE3)
    IN  [i \in 1..Len(kept) |->
            kept[i] @@ [ final_rrn |-> FinalRrn(kept[i]),
                         final_authorization_code |-> FinalAuthorizationCode(kept[i]),
                         transaction_analysis |-> TransactionAnalysis(kept[i]),
                         transaction_outcome |-> TransactionOutcome(kept[i]) ]]

(***************************************************************************)
(* The view's SELECT: LEFT JOIN bank under the OR of seven tiers and the   *)
(* bank_match_type CASE.  A bank row b has authorization_code, rrn,        *)
(* transaction_amount, transaction_date and its position bid in bank.      *)
(***************************************************************************)
\* the two tolerance bands, in hundredths
TOL_EXACT == 1
TOL_APPROX == 100

Abs(n) == IF n < 0 THEN 0 - n ELSE n
\* ABS(ta.amount::NUMERIC(18,2) - b.transaction_amount::NUMERIC(18,2)) <= tol
AmountWithin(ta, b, tol) ==
    IF ta.amount = Null \/ b.transaction_amount = Null THEN NULL3
    ELSE Bool3(Abs(Val(ta.amount) - Val(b.transaction_amount)) <= tol)
\* ta.final_authorization_code = b.authorization_code
AuthCodeEq(ta, b) == Eq3(ta.final_authorization_code, b.authorization_code)
\* ta.final_rrn = b.rrn
RrnEq(ta, b) == Eq3(ta.final_rrn, b.rrn)
\* b.transaction_date::DATE = ta.transaction_date::DATE
SameDay(ta, b) == Eq3(b.transaction_date, ta.transaction_date)

\* an ON condition that lacks the RRN + approximate amount tier
JoinPredicate_NoRrnApprox(ta, b) ==
    Or3(And3(AuthCodeEq(ta, b), And3(RrnEq(ta, b), AmountWithin(ta, b, TOL_EXACT))),
    Or3(And3(RrnEq(ta, b), AmountWithin(ta, b, TOL_EXACT)),
    Or3(And3(AuthCodeEq(ta, b), AmountWithin(ta, b, TOL_EXACT)),
    Or3(And3(AuthCodeEq(ta, b), And3(SameDay(ta, b), AmountWithin(ta, b, TOL_EXACT))),
    Or3(And3(AuthCodeEq(ta, b), AmountWithin(ta, b, TOL_APPROX)),
        And3(AuthCodeEq(ta, b), And3(SameDay(ta, b), AmountWithin(ta, b, TOL_APPROX))))))))
\* the ON condition of LEFT JOIN bank b
JoinPredicate(ta, b) ==
    Or3(And3(AuthCodeEq(ta, b), And3(RrnEq(ta, b), AmountWithin(ta, b, TOL_EXACT))),
    Or3(And3(RrnEq(ta, b), AmountWithin(ta, b, TOL_EXACT)),
    Or3(And3(AuthCodeEq(ta, b), AmountWithin(ta, b, TOL_EXACT)),
    Or3(And3(AuthCodeEq(ta, b), And3(SameDay(ta, b), AmountWithin(ta, b, TOL_EXACT))),
    Or3(And3(RrnEq(ta, b), AmountWithin(ta, b, TOL_APPROX)),
    Or3(And3(AuthCodeEq(ta, b), AmountWithin(ta, b, TOL_APPROX)),
        And3(AuthCodeEq(ta, b), And3(SameDay(ta, b), AmountWithin(ta, b, TOL_APPROX)))))))))

\* the bank_match_type CASE
BankMatchType(ta, b) ==
    IF And3(IsNotNull(b.authorization_code),
            And3(AuthCodeEq(ta, b), And3(RrnEq(ta, b), AmountWithin(ta, b, TOL_EXACT)))) = TRUE3
        THEN Some("MATCH: Authorization Code + RRN + Amount")
    ELSE IF And3(IsNotNull(b.rrn), And3(RrnEq(ta, b), AmountWithin(ta, b, TOL_EXACT))) = TRUE3
        THEN Some("MATCH: RRN + Amount")
    ELSE IF And3(IsNotNull(b.authorization_code),
                 And3(AuthCodeEq(ta, b), AmountWithin(ta, b, TOL_EXACT))) = TRUE3
        THEN Some("MATCH: Authorization Code + Amount")
    ELSE IF And3(IsNotNull(b.authorization_code),
                 And3(AuthCodeEq(ta, b), And3(SameDay(ta, b), AmountWithin(ta, b, TOL_EXACT)))) = TRUE3
        THEN Some("FALLBACK MATCH: Authorization Code + Same Day + Amount")
    ELSE IF And3(IsNotNull(b.rrn), And3(RrnEq(ta, b), AmountWithin(ta, b, TOL_APPROX))) = TRUE3
        THEN Some("PARTIAL MATCH: RRN + Approx Amount")
    ELSE IF And3(IsNotNull(b.authorization_code),
                 And3(AuthCodeEq(ta, b), AmountWithin(ta, b, TOL_APPROX))) = TRUE3
        THEN Some("PARTIAL MATCH: Authorization Code + Approx Amount")
    ELSE IF And3(IsNotNull(b.authorization_code),
                 And3(AuthCodeEq(ta, b), And3(SameDay(ta, b), AmountWithin(ta, b, TOL_APPROX)))) = TRUE3
        THEN Some("PARTIAL MATCH: Authorization Code + Same Day + Approx Amount")
    ELSE Null

\* the bank side of an unmatched row of a LEFT JOIN
NullBankRow ==
    [bid |-> 0, authorization_code |-> Null, rrn |-> Null,
     transaction_amount |-> Null, transaction_date |-> Null]

\* ta.*, the b.* columns and bank_match_type
JoinedRow(ta, b) ==
    ta @@ [ bid |-> b.bid,
            bank_auth_code |-> b.authorization_code,
            bank_rrn |-> b.rrn,
            bank_amount |-> b.transaction_amount,
            bank_transaction_date |-> b.transaction_date,
            bank_match_type |-> BankMatchType(ta, b) ]

\* an inner join: unmatched rows contribute nothing
LeftJoinRows_Inner(ta, bk) ==
    LET matched == SelectSeq(bk, LAMBDA b : JoinPredicate(ta, b) = TRUE3)
    IN  [k \in 1..Len(matched) |-> JoinedRow(ta, matched[k])]
\* the rows one transaction_with_analysis row contributes to the LEFT JOIN
LeftJoinRows(ta, bk) ==
    LET matched == SelectSeq(bk, LAMBDA b : JoinPredicate(ta, b) = TRUE3)
    IN  IF Len(matched) = 0 THEN <<JoinedRow(ta, NullBankRow)>>
        ELSE [k \in 1..Len(matched) |-> JoinedRow(ta, matched[k])]

RECURSIVE LeftJoinBank(_, _)
LeftJoinBank(twa, bk) ==
    IF Len(twa) = 0 THEN <<>>
    ELSE LeftJoinRows(Head(twa), bk) \o LeftJoinBank(Tail(twa), bk)

\* SELECT ... FROM transaction_with_analysis ta [LEFT JOIN bank b ON ...]
ViewSelect(twa, bk, recon) == IF recon THEN LeftJoinBank(twa, bk) ELSE twa

\* the rows of payment_analysis_view over the current tables
PaymentAnalysisView(rows, bk, recon) ==
    ViewSelect(TransactionWithAnalysis(RankedTransactions(GatewayAnalysis(rows))), bk, recon)

(***************************************************************************)
(* Specification SpecView: the tables hold any rows of the domains below;  *)
(* the generated pipeline is executed against them.                        *)
(***************************************************************************)
SeqsUpTo(S, n) == UNION {[1..k -> S] : k \in 0..n}

ViewStatuses == {Null, Some(ST_Authorisation), Some(ST_Capture)}
ViewIdentifiers == {[rrn |-> Null, auth |-> Null], [rrn |-> Some("A1"), auth |-> Some("C1")]}

GatewayRowDomain ==
    { [ gw |-> "checkout_v1", order_id |-> Some(1001), txn_id |-> t, amount |-> Some(1000),
        status |-> s, tdate |-> Some(1), auth |-> id.auth, rrn |-> id.rrn, resp |-> c,
        txn_type |-> Null ] :
        t \in {Some("T1"), Some("T2")}, s \in ViewStatuses, id \in ViewIdentifiers,
        c \in {Some("10000"), Some("20005")} }

BankRowDomain ==
    { [ authorization_code |-> Some("C1"), rrn |-> Some("A1"), transaction_amount |-> Some(a),
        transaction_date |-> Some(1) ] : a \in {1001, 1200} }

\* a table: rows in storage order, each tagged with its position
WithBid(rows) == [i \in 1..Len(rows) |-> rows[i] @@ [bid |-> i]]

InitView ==
    /\ phase = "tables"
    /\ gateway_rows \in SeqsUpTo(GatewayRowDomain, MaxGatewayRows)
    /\ include_reconciliation \in BOOLEAN
    \* the bank table is read only by the reconciliation join
    /\ bank \in IF include_reconciliation
                THEN {WithBid(b) : b \in SeqsUpTo(BankRowDomain, MaxBankRows)}
                ELSE {<<>>}
    /\ payment_analysis_view = <<>>
    /\ GeneratorIdle
    /\ CleanerIdle
    /\ PipelineIdle

\* run the generated pipeline: create the view and read it
ExecutePipeline ==
    /\ phase = "tables"
    /\ phase' = "view"
    /\ payment_analysis_view' = PaymentAnalysisView(gateway_rows, bank, include_reconciliation)
    /\ UNCHANGED <<gateway_rows, bank, include_reconciliation, generator_vars, cleaner_vars, pipeline_vars>>

NextView == ExecutePipeline

SpecView == InitView /\ [][NextView]_vars

(***************************************************************************)
(* Specification SpecMatch: one successful gateway row and one bank row,   *)
(* with every combination of identifiers, amounts and dates.               *)
(***************************************************************************)
MatchGatewayDomain ==
    { [ gw |-> g, order_id |-> Some(1001), txn_id |-> Some("T1"), amount |-> a,
        status |-> Some(ST_Approved), tdate |-> d, auth |-> c, rrn |-> r, resp |-> Some("10000"),
        txn_type |-> Null ] :
        g \in {"checkout_v1", "tamara"}, a \in {Null, Some(1000)}, d \in {Null, Some(1), Some(2)},
        c \in {Null, Some(""), Some("C1"), Some("C2")}, r \in {Null, Some(""), Some("A1"), Some("A2")} }

MatchBankDomain ==
    { [ authorization_code |-> c, rrn |-> r, transaction_amount |-> a, transaction_date |-> d ] :
        c \in {Null, Some(""), Some("C1"), Some("C2")}, r \in {Null, Some(""), Some("A1"), Some("A2")},
        a \in {Null, Some(1000), Some(1001), Some(1002), Some(1100), Some(1101)},
        d \in {Null, Some(1), Some(2)} }

InitMatch ==
    /\ phase = "tables"
    /\ gateway_rows \in {<<g>> : g \in MatchGatewayDomain}
    /\ include_reconciliation = TRUE
    /\ bank \in {WithBid(<<b>>) : b \in MatchBankDomain}
    /\ payment_analysis_view = <<>>
    /\ GeneratorIdle
    /\ CleanerIdle
    /\ PipelineIdle

SpecMatch == InitMatch /\ [][NextView]_vars

(***************************************************************************)
(* Properties of the view (SpecView, SpecMatch).                           *)
(***************************************************************************)
Max(a, b) == IF a >= b THEN a ELSE b

\* the intermediate relations over the current tables
Ranked == RankedTransactions(GatewayAnalysis(gateway_rows))
Twa == TransactionWithAnalysis(Ranked)
\* positions of the view rows that stem from the gateway rows in S
ViewRowsOf(S) == {n \in 1..Len(payment_analysis_view) : payment_analysis_view[n].src \in S}

\* the tiers as the design states them, on plain values
SameText(x, y) == x # Null /\ y # Null /\ Val(x) = Val(y)
SameDate(x, y) == x # Null /\ y # Null /\ Val(x) = Val(y)
Within(ta, b, tol) ==
    /\ ta.amount # Null
    /\ b.transaction_amount # Null
    /\ Val(ta.amount) - Val(b.transaction_amount) <= tol
    /\ Val(b.transaction_amount) - Val(ta.amount) <= tol
Tier(n, ta, b) ==
    LET ac == SameText(ta.final_authorization_code, b.authorization_code)
        rr == SameText(ta.final_rrn, b.rrn)
        dd == SameDate(ta.transaction_date, b.transaction_date)
    IN  CASE n = 1 -> ac /\ rr /\ Within(ta, b, 1)
          [] n = 2 -> rr /\ Within(ta, b, 1)
          [] n = 3 -> ac /\ Within(ta, b, 1)
          [] n = 4 -> ac /\ dd /\ Within(ta, b, 1)
          [] n = 5 -> rr /\ Within(ta, b, 100)
          [] n = 6 -> ac /\ Within(ta, b, 100)
          [] n = 7 -> ac /\ dd /\ Within(ta, b, 100)
TierLabel ==
    << "MATCH: Authorization Code + RRN + Amount",
       "MATCH: RRN + Amount",
       "MATCH: Authorization Code + Amount",
       "FALLBACK MATCH: Authorization Code + Same Day + Amount",
       "PARTIAL MATCH: RRN + Approx Amount",
       "PARTIAL MATCH: Authorization Code + Approx Amount",
       "PARTIAL MATCH: Authorization Code + Same Day + Approx Amount" >>
AnyTier(ta, b) == \E n \in 1..7 : Tier(n, ta, b)
FirstTier(ta, b) == CHOOSE n \in 1..7 : Tier(n, ta, b) /\ \A m \in 1..(n - 1) : ~Tier(m, ta, b)
\* the bank rows that satisfy at least one tier for ta
MatchingBank(ta) == {k \in 1..Len(bank) : AnyTier(ta, bank[k])}

\* groups of exactly one authorization (rrn A1, code C1) and one successful
\* capture (rrn NULL, code NULL), as <<authorization, capture>> positions in r,
\* the ranked_transactions rows
AuthCapturePairs(r) ==
    { p \in (1..Len(r)) \X (1..Len(r)) :
        /\ p[1] # p[2]
        /\ {k \in 1..Len(r) : SameGroup(r[k], r[p[1]])} = {p[1], p[2]}
        /\ r[p[1]].is_auth = TRUE3 /\ r[p[1]].is_capture # TRUE3
        /\ r[p[1]].rrn = Some("A1") /\ r[p[1]].authorization_code = Some("C1")
        /\ r[p[2]].is_capture = TRUE3 /\ r[p[2]].is_auth # TRUE3
        /\ r[p[2]].rrn = Null /\ r[p[2]].authorization_code = Null
        /\ TransactionOutcome(r[p[2]]) = "Success" }

\* every view row of the pair is its capture, carrying the authorization's identifiers
OnlyMergedCapture(rows, capture) ==
    \A n \in rows :
        /\ payment_analysis_view[n].src = capture.src
        /\ payment_analysis_view[n].is_capture = TRUE3
        /\ payment_analysis_view[n].final_rrn = Some("A1")
        /\ payment_analysis_view[n].final_authorization_code = Some("C1")

\* C1 (as stated): an authorization (rrn A1, code C1) and a successful capture
\* (rrn NULL, code NULL) forming one group yield exactly one view row, the
\* capture with final_rrn A1 and final_authorization_code C1; the
\* authorization is absent.
C1_ExactlyOneRow ==
    phase = "view" =>
        LET r == Ranked
        IN  \A p \in AuthCapturePairs(r) :
                LET rows == ViewRowsOf({r[p[1]].src, r[p[2]].src})
                IN  Cardinality(rows) = 1 /\ OnlyMergedCapture(rows, r[p[2]])

\* C1 (amended): the group yields exactly one row of transaction_with_analysis,
\* the capture with final_rrn A1 and final_authorization_code C1; the
\* authorization is absent from the view and every view row of the group is that
\* capture, exactly one when reconciliation is off or at most one bank row
\* matches it.
C1_MergedCapture ==
    phase = "view" =>
        LET r == Ranked
            t == TransactionWithAnalysis(r)
        IN  \A p \in AuthCapturePairs(r) :
                LET rows == ViewRowsOf({r[p[1]].src, r[p[2]].src})
                    tas == {i \in 1..Len(t) : t[i].src \in {r[p[1]].src, r[p[2]].src}}
                IN  /\ Cardinality(tas) = 1
                    /\ \A i \in tas : t[i].src = r[p[2]].src
                    /\ OnlyMergedCapture(rows, r[p[2]])
                    /\ Cardinality(rows) >= 1
                    /\ \A i \in tas :
                           (~include_reconciliation \/ Cardinality(MatchingBank(t[i])) <= 1)
                               => Cardinality(rows) = 1

C1_Witness ==
    /\ phase = "view"
    /\ include_reconciliation
    /\ Len(bank) > 0
    /\ LET r == Ranked
       IN  \E p \in AuthCapturePairs(r) : Cardinality(ViewRowsOf({r[p[1]].src, r[p[2]].src})) = 1

\* C2: with reconciliation, bank_match_type of a (gateway row, bank row) pair is
\* the label of the first tier, in the order (a)..(g), that the pair satisfies,
\* and it is NULL exactly when the pair satisfies no tier, which is exactly when
\* the LEFT JOIN attaches no bank row.
C2_FirstTierLabel ==
    (phase = "view" /\ include_reconciliation) =>
        LET t == Twa
        IN  \A i \in 1..Len(t) :
                /\ \A k \in 1..Len(bank) :
                       AnyTier(t[i], bank[k]) <=>
                           \E n \in ViewRowsOf({t[i].src}) : payment_analysis_view[n].bid = k
                /\ \A n \in ViewRowsOf({t[i].src}) :
                       LET v == payment_analysis_view[n]
                       IN  IF v.bid = 0
                           THEN v.bank_match_type = Null /\ MatchingBank(t[i]) = {}
                           ELSE v.bank_match_type = Some(TierLabel[FirstTier(t[i], bank[v.bid])])

C2_Witness ==
    /\ phase = "view"
    /\ include_reconciliation
    /\ \E n \in 1..Len(payment_analysis_view) :
           payment_analysis_view[n].bank_match_type = Some(TierLabel[5])

\* C3: with reconciliation, every row of transaction_with_analysis appears in the
\* view max(1, k) times, k being the number of bank rows that satisfy a tier for
\* it; with k = 0 it appears once with the bank columns and bank_match_type NULL.
C3_LeftJoinMultiplicity ==
    (phase = "view" /\ include_reconciliation) =>
        LET t == Twa
        IN  \A i \in 1..Len(t) :
                LET rows == ViewRowsOf({t[i].src})
                    k == Cardinality(MatchingBank(t[i]))
                IN  /\ Cardinality(rows) = Max(1, k)
                    /\ k = 0 =>
                         \A n \in rows :
                            /\ payment_analysis_view[n].bank_auth_code = Null
                            /\ payment_analysis_view[n].bank_rrn = Null
                            /\ payment_analysis_view[n].bank_amount = Null
                            /\ payment_analysis_view[n].bank_transaction_date = Null
                            /\ payment_analysis_view[n].bank_match_type = Null

C3_Witness ==
    /\ phase = "view"
    /\ include_reconciliation
    /\ LET t == Twa
       IN  /\ \E i \in 1..Len(t) : Cardinality(MatchingBank(t[i])) = 2
           /\ \E i \in 1..Len(t) : Cardinality(MatchingBank(t[i])) = 0

\* C4: every view row has transaction_outcome 'Success', and none is an
\* authorization row of a group that holds both an authorization and a capture.
C4_SuccessAndNoMergedAuth ==
    phase = "view" =>
        \A n \in 1..Len(payment_analysis_view) :
            LET v == payment_analysis_view[n]
                grp == {k \in 1..Len(gateway_rows) :
                           /\ gateway_rows[k].order_id = v.gateway_order_id
                           /\ gateway_rows[k].txn_id = v.gateway_transaction_id}
            IN  /\ v.transaction_outcome = "Success"
                /\ ~( /\ v.is_auth = TRUE3
                      /\ \E k \in grp : IsAuthExpr(gateway_rows[k].gw, gateway_rows[k]) = TRUE3
                      /\ \E k \in grp : IsCaptureExpr(gateway_rows[k].gw, gateway_rows[k]) = TRUE3 )

C4_Witness ==
    /\ phase = "view"
    /\ Len(payment_analysis_view) = 1
    /\ Len(gateway_rows) = 2
    /\ LET r == Ranked
       IN  \E i \in 1..Len(r) :
               r[i].is_auth = TRUE3 /\ TransactionOutcome(r[i]) = "Success"
                   /\ r[i].has_capture_in_group = 1

(***************************************************************************)
(* The text of the generated pipeline.                                     *)
(*                                                                         *)
(* generate_payment_analysis_query builds a list of text parts and joins   *)
(* them with newlines.  The model keeps the text as the sequence of its    *)
(* lines, each line a string holding the characters the program writes;    *)
(* the one multi-line part (the gateway sections) is held line by line.    *)
(***************************************************************************)
CharAt(s, i) == SubSeq(s, i, i)

StartsWith(s, p) == Len(s) >= Len(p) /\ SubSeq(s, 1, Len(p)) = p

EndsWith(s, p) == Len(s) >= Len(p) /\ SubSeq(s, Len(s) - Len(p) + 1, Len(s)) = p

\* the positions at which p occurs in s
Occurrences(s, p) == {i \in 1..(Len(s) - Len(p) + 1) : SubSeq(s, i, i + Len(p) - 1) = p}

MinOf(S) == CHOOSE x \in S : \A y \in S : x <= y

MaxOf(S) == CHOOSE x \in S : \A y \in S : y <= x

\* str.split(sep)[0] and str.split(sep)[-1]
SplitFirst(s, sep) ==
    LET occ == Occurrences(s, sep)
    IN  IF occ = {} THEN s ELSE SubSeq(s, 1, MinOf(occ) - 1)

SplitLast(s, sep) ==
    LET occ == Occurrences(s, sep)
    IN  IF occ = {} THEN s ELSE SubSeq(s, MaxOf(occ) + Len(sep), Len(s))

\* str.strip() for the blanks that occur in the text
Strip(s) ==
    LET inked == {i \in 1..Len(s) : CharAt(s, i) # " "}
    IN  IF inked = {} THEN "" ELSE SubSeq(s, MinOf(inked), MaxOf(inked))

\* sep.join(items), the separator holding a line break: every item but the
\* last ends its line with lineEnd, every item but the first starts with indent
JoinLines(items, lineEnd, indent) ==
    [i \in 1..Len(items) |->
        (IF i = 1 THEN "" ELSE indent) \o items[i] \o (IF i = Len(items) THEN "" ELSE lineEnd)]


\* query_parts, lines 438-452
IndexBlockOpen ==
    <<
    "-- Recommended Indices for Performance",
    "DO $$",
    "BEGIN",
    "    IF NOT EXISTS (SELECT 1 FROM pg_indexes WHERE indexname = 'idx_portal_order_id') THEN CREATE INDEX idx_portal_order_id ON portal (order_id); END IF;",
    "    IF NOT EXISTS (SELECT 1 FROM pg_indexes WHERE indexname = 'idx_metabase_portal_order_id') THEN CREATE INDEX idx_metabase_portal_order_id ON metabase (portal_order_id); END IF;",
    "    IF NOT EXISTS (SELECT 1 FROM pg_indexes WHERE indexname = 'idx_metabase_gateway_ids') THEN CREATE INDEX idx_metabase_gateway_ids ON metabase (gateway_order_id, gateway_transaction_id); END IF;",
    "    IF NOT EXISTS (SELECT 1 FROM pg_indexes WHERE indexname = 'idx_checkout_v1_join_keys') THEN CREATE INDEX idx_checkout_v1_join_keys ON checkout_v1 (order_id, payment_online_transaction_id); END IF;",
    "    IF NOT EXISTS (SELECT 1 FROM pg_indexes WHERE indexname = 'idx_checkout_v1_status_code') THEN CREATE INDEX idx_checkout_v1_status_code ON checkout_v1 (status, response_code); END IF;",
    "    IF NOT EXISTS (SELECT 1 FROM pg_indexes WHERE indexname = 'idx_checkout_v2_join_keys') THEN CREATE INDEX idx_checkout_v2_join_keys ON checkout_v2 (order_id, payment_online_transaction_id); END IF;",
    "    IF NOT EXISTS (SELECT 1 FROM pg_indexes WHERE indexname = 'idx_checkout_v2_status_code') THEN CREATE INDEX idx_checkout_v2_status_code ON checkout_v2 (status, response_code); END IF;",
    "    IF NOT EXISTS (SELECT 1 FROM pg_indexes WHERE indexname = 'idx_payfort_join_keys') THEN CREATE INDEX idx_payfort_join_keys ON payfort (order_id, payment_online_transaction_id); END IF;",
    "    IF NOT EXISTS (SELECT 1 FROM pg_indexes WHERE indexname = 'idx_payfort_status') THEN CREATE INDEX idx_payfort_status ON payfort (status); END IF;",
    "    IF NOT EXISTS (SELECT 1 FROM pg_indexes WHERE indexname = 'idx_tamara_payment_id') THEN CREATE INDEX idx_tamara_payment_id ON tamara (payment_online_transaction_id); END IF;",
    "    IF NOT EXISTS (SELECT 1 FROM pg_indexes WHERE indexname = 'idx_tamara_status_type') THEN CREATE INDEX idx_tamara_status_type ON tamara (status, txn_type); END IF;"
    >>

\* lines 456-458, added when include_reconciliation
BankIndexStatements ==
    <<
    "    IF NOT EXISTS (SELECT 1 FROM pg_indexes WHERE indexname = 'idx_bank_auth_rrn') THEN CREATE INDEX idx_bank_auth_rrn ON bank (authorization_code, rrn); END IF;",
    "    IF NOT EXISTS (SELECT 1 FROM pg_indexes WHERE indexname = 'idx_bank_rrn') THEN CREATE INDEX idx_bank_rrn ON bank (rrn); END IF;",
    "    IF NOT EXISTS (SELECT 1 FROM pg_indexes WHERE indexname = 'idx_bank_auth_code') THEN CREATE INDEX idx_bank_auth_code ON bank (authorization_code); END IF;"
    >>

\* lines 461-469
ViewHeader ==
    <<
    "END$$;",
    "",
    "-- Drop the view first to allow changing column data types",
    "DROP VIEW IF EXISTS payment_analysis_view;",
    "",
    "-- Create or replace a view that encapsulates our payment analysis query",
    "CREATE OR REPLACE VIEW payment_analysis_view AS",
    "WITH",
    "gateway_analysis AS ("
    >>

\* lines 249-264
checkout_v1_fields ==
    <<
    "c1.transaction_amount::NUMERIC(18,2) AS checkout_v1_amount",
    "c1.status::VARCHAR AS checkout_v1_status",
    "c1.transaction_date::DATE AS checkout_v1_transaction_date",
    "c1.payment_online_transaction_id::VARCHAR AS checkout_v1_payment_id",
    "c1.order_id::INTEGER AS checkout_v1_order_id",
    "c1.authorization_code::VARCHAR AS checkout_v1_authorization_code",
    "c1.rrn::VARCHAR AS checkout_v1_rrn",
    "c1.payment_method::VARCHAR AS checkout_v1_payment_method",
    "c1.issuing_bank::VARCHAR AS checkout_v1_issuing_bank",
    "c1.response_code::VARCHAR AS checkout_v1_response_code",
    "c1.response_description::VARCHAR AS checkout_v1_response_description",
    "c1.processor::VARCHAR AS checkout_v1_processor",
    "c1.card_wallet_type::VARCHAR AS checkout_v1_card_wallet_type",
    "c1.currency::VARCHAR AS checkout_v1_currency"
    >>

\* lines 266-280
checkout_v2_fields ==
    <<
    "c2.transaction_amount::NUMERIC(18,2) AS checkout_v2_amount",
    "c2.status::VARCHAR AS checkout_v2_status",
    "c2.action_date_utc_1::DATE AS checkout_v2_transaction_date",
    "c2.payment_online_transaction_id::VARCHAR AS checkout_v2_payment_id",
    "c2.order_id::INTEGER AS checkout_v2_order_id",
    "c2.authorization_code::VARCHAR AS checkout_v2_authorization_code",
    "c2.rrn::VARCHAR AS checkout_v2_rrn",
    "c2.payment_method_name::VARCHAR AS checkout_v2_payment_method",
    "c2.response_code::VARCHAR AS checkout_v2_response_code",
    "c2.response_description::VARCHAR AS checkout_v2_response_description",
    "c2.wallet::VARCHAR AS checkout_v2_wallet",
    "c2.currency_symbol::VARCHAR AS checkout_v2_currency",
    "c2.co_badged_card::VARCHAR AS checkout_v2_co_badged_card"
    >>

\* lines 282-298
payfort_fields ==
    <<
    "pf.transaction_amount::NUMERIC(18,2) AS payfort_amount",
    "pf.status::VARCHAR AS payfort_status",
    "pf.transaction_date::DATE AS payfort_transaction_date",
    "pf.payment_online_transaction_id::VARCHAR AS payfort_payment_id",
    "pf.order_id::INTEGER AS payfort_order_id",
    "pf.authorization_code::VARCHAR AS payfort_authorization_code",
    "pf.rrn::VARCHAR AS payfort_rrn",
    "pf.payment_method::VARCHAR AS payfort_payment_method",
    "pf.payment_method_type::VARCHAR AS payfort_payment_method_type",
    "pf.acquirer_name::VARCHAR AS payfort_acquirer_name",
    "pf.merchant_country::VARCHAR AS payfort_merchant_country",
    "pf.channel::VARCHAR AS payfort_channel",
    "pf.mid::VARCHAR AS payfort_mid",
    "pf.currency::VARCHAR AS payfort_currency",
    "pf.time::TIME AS payfort_time"
    >>

\* lines 300-316
tamara_fields ==
    <<
    "t.txn_amount::NUMERIC(18,2) AS tamara_amount",
    "t.status::VARCHAR AS tamara_status",
    "t.txn_created_at_gmt_03_00::DATE AS tamara_transaction_date",
    "t.payment_online_transaction_id::VARCHAR AS tamara_payment_id",
    "t.order_id::INTEGER AS tamara_portal_order_id",
    "t.tamara_txn_reference::VARCHAR AS tamara_txn_reference",
    "t.payment_method::VARCHAR AS tamara_payment_method",
    "t.customer_name::VARCHAR AS tamara_customer_name",
    "t.txn_type::VARCHAR AS tamara_txn_type",
    "t.txn_settlement_status::VARCHAR AS tamara_txn_settlement_status",
    "t.order_currency::VARCHAR AS tamara_order_currency",
    "t.country_code::VARCHAR AS tamara_country_code",
    "t.store_name::VARCHAR AS tamara_store_name",
    "t.total_amount::NUMERIC(18,2) AS tamara_total_amount",
    "t.order_created_at_gmt_03_00::DATE AS tamara_order_created_at"
    >>

\* lines 658-666
RankedTransactionsParts ==
    <<
    "ranked_transactions AS (",
    "    SELECT",
    "        ga.*,",
    "        (MAX(CASE WHEN ga.is_auth THEN 1 ELSE 0 END) OVER (PARTITION BY ga.gateway_order_id, ga.gateway_transaction_id))::INTEGER AS has_auth_in_group,",
    "        (MAX(CASE WHEN ga.is_capture THEN 1 ELSE 0 END) OVER (PARTITION BY ga.gateway_order_id, ga.gateway_transaction_id))::INTEGER AS has_capture_in_group,",
    "        (MAX(CASE WHEN ga.is_auth THEN ga.rrn END) OVER (PARTITION BY ga.gateway_order_id, ga.gateway_transaction_id))::VARCHAR AS auth_rrn_in_group,",
    "        (MAX(CASE WHEN ga.is_auth THEN ga.authorization_code END) OVER (PARTITION BY ga.gateway_order_id, ga.gateway_transaction_id))::VARCHAR AS auth_authorization_code_in_group",
    "    FROM gateway_analysis ga",
    "),"
    >>

\* lines 669-704
TransactionWithAnalysisParts ==
    <<
    "transaction_with_analysis AS (",
    "SELECT",
    "        rt.*,",
    "        CASE WHEN rt.is_capture AND rt.has_auth_in_group = 1 AND rt.has_capture_in_group = 1 THEN rt.auth_rrn_in_group ELSE rt.rrn END::VARCHAR AS final_rrn,",
    "        CASE WHEN rt.is_capture AND rt.has_auth_in_group = 1 AND rt.has_capture_in_group = 1 THEN rt.auth_authorization_code_in_group ELSE rt.authorization_code END::VARCHAR AS final_authorization_code,",
    "        CASE",
    "            WHEN rt.is_refund THEN CASE WHEN rt.response_code = '10000' OR UPPER(rt.status) IN ('FULLY_REFUNDED', 'PARTIALLY_REFUNDED') THEN 'Refund Successful' ELSE 'Refund Failed/Pending' END",
    "            WHEN rt.is_void OR UPPER(rt.status) = 'CANCEL' THEN CASE WHEN rt.response_code = '10000' OR UPPER(rt.status) = 'CANCELED' THEN 'Void Successful' ELSE 'Void Failed/Pending' END",
    "            WHEN rt.is_capture THEN",
    "                CASE",
    "                    WHEN rt.has_auth_in_group = 0 THEN CASE WHEN rt.response_code = '10000' OR UPPER(rt.status) = 'APPROVED' THEN 'Capture Successful (auth_less)' ELSE 'Capture Failed/Pending (auth_less)' END",
    "                    WHEN rt.response_code = '10000' OR UPPER(rt.status) = 'APPROVED' THEN CASE WHEN rt.has_auth_in_group = 1 THEN 'Capture Successful (Authorisation Merged)' ELSE 'Capture Successful' END",
    "                    ELSE 'Capture Failed/Pending (Check Response: ' || rt.response_code || ')'",
    "                END",
    "            WHEN rt.is_auth THEN CASE WHEN rt.response_code = '10000' OR UPPER(rt.status) = 'APPROVED' THEN 'Authorisation Successful' ELSE 'Authorisation Failed (Check Response: ' || rt.response_code || ')' END",
    "            WHEN rt.response_code = '10000' THEN 'General Success (Code 10000)'",
    "            WHEN UPPER(rt.status) = 'APPROVED' THEN 'General Success (Approved)'",
    "            WHEN rt.response_code != '10000' AND rt.response_code IS NOT NULL AND rt.response_code != '' THEN 'General Failure (Code: ' || rt.response_code || ')'",
    "            WHEN UPPER(rt.status) IN ('DECLINED', 'FAILED') THEN 'General Failure (Declined/Failed)'",
    "            ELSE 'Unknown/Incomplete Status'",
    "        END::VARCHAR AS transaction_analysis,",
    "        CASE",
    "            WHEN (CASE",
    "                WHEN rt.is_refund THEN CASE WHEN rt.response_code = '10000' OR UPPER(rt.status) IN ('FULLY_REFUNDED', 'PARTIALLY_REFUNDED') THEN 'Success' ELSE 'Failure' END",
    "                WHEN rt.is_void OR UPPER(rt.status) = 'CANCEL' THEN CASE WHEN rt.response_code = '10000' OR UPPER(rt.status) = 'CANCELED' THEN 'Success' ELSE 'Failure' END",
    "                WHEN rt.is_capture THEN CASE WHEN rt.response_code = '10000' OR UPPER(rt.status) = 'APPROVED' THEN 'Success' ELSE 'Failure' END",
    "                WHEN rt.is_auth THEN CASE WHEN rt.response_code = '10000' OR UPPER(rt.status) = 'APPROVED' THEN 'Success' ELSE 'Failure' END",
    "                WHEN rt.response_code = '10000' THEN 'Success'",
    "                WHEN UPPER(rt.status) = 'APPROVED' THEN 'Success'",
    "                ELSE 'Failure'",
    "            END) = 'Success' THEN 'Success' ELSE 'Failure'",
    "        END::VARCHAR AS transaction_outcome",
    "    FROM ranked_transactions rt",
    "    WHERE NOT (rt.is_auth AND rt.has_auth_in_group = 1 AND rt.has_capture_in_group = 1)",
    "      AND (CASE WHEN (CASE WHEN rt.is_refund THEN CASE WHEN rt.response_code = '10000' OR UPPER(rt.status) IN ('FULLY_REFUNDED', 'PARTIALLY_REFUNDED') THEN 'Success' ELSE 'Failure' END WHEN rt.is_void OR UPPER(rt.status) = 'CANCEL' THEN CASE WHEN rt.response_code = '10000' OR UPPER(rt.status) = 'CANCELED' THEN 'Success' ELSE 'Failure' END WHEN rt.is_capture THEN CASE WHEN rt.response_code = '10000' OR UPPER(rt.status) = 'APPROVED' THEN 'Success' ELSE 'Failure' END WHEN rt.is_auth THEN CASE WHEN rt.response_code = '10000' OR UPPER(rt.status) = 'APPROVED' THEN 'Success' ELSE 'Failure' END WHEN rt.response_code = '10000' THEN 'Success' WHEN UPPER(rt.status) = 'APPROVED' THEN 'Success' ELSE 'Failure' END) = 'Success' THEN 'Success' ELSE 'Failure' END) = 'Success'",
    ")"
    >>

\* lines 708-748
ReconciliationSelectParts ==
    <<
    "SELECT ",
    "    ta.*,",
    "    b.authorization_code::VARCHAR AS bank_auth_code,",
    "    b.rrn::VARCHAR AS bank_rrn,",
    "    b.transaction_amount::NUMERIC(18,2) AS bank_amount,",
    "    b.transaction_date::DATE AS bank_transaction_date,",
    "    b.transaction_type::VARCHAR AS bank_transaction_type,",
    "    b.status::VARCHAR AS bank_status,",
    "    b.bank_name::VARCHAR AS bank_bank_name,",
    "    b.card_type::VARCHAR AS bank_card_type,",
    "    b.cashback_amount::NUMERIC(18,2) AS bank_cashback_amount,",
    "    b.discount_amount::NUMERIC(18,2) AS bank_discount_amount,",
    "    b.masked_card::VARCHAR AS bank_masked_card,",
    "    b.merchant_identifier::VARCHAR AS bank_merchant_identifier,",
    "    b.payment_online_transaction_id::VARCHAR AS bank_payment_id,",
    "    b.posting_date::DATE AS bank_posting_date,",
    "    b.terminal_identifier::VARCHAR AS bank_terminal_identifier, ",
    "    b.total_payment_amount::NUMERIC(18,2) AS bank_total_payment_amount,",
    "    b.transaction_link_url::VARCHAR AS bank_transaction_link_url,",
    "    b.vat_amount::NUMERIC(18,2) AS bank_vat_amount,",
    "    CASE ",
    "        WHEN b.authorization_code IS NOT NULL AND ta.final_authorization_code = b.authorization_code AND ta.final_rrn = b.rrn AND ABS(ta.amount::NUMERIC(18,2) - b.transaction_amount::NUMERIC(18,2)) <= 0.01 THEN 'MATCH: Authorization Code + RRN + Amount'",
    "        WHEN b.rrn IS NOT NULL AND ta.final_rrn = b.rrn AND ABS(ta.amount::NUMERIC(18,2) - b.transaction_amount::NUMERIC(18,2)) <= 0.01 THEN 'MATCH: RRN + Amount'",
    "        WHEN b.authorization_code IS NOT NULL AND ta.final_authorization_code = b.authorization_code AND ABS(ta.amount::NUMERIC(18,2) - b.transaction_amount::NUMERIC(18,2)) <= 0.01 THEN 'MATCH: Authorization Code + Amount'",
    "        WHEN b.authorization_code IS NOT NULL AND ta.final_authorization_code = b.authorization_code AND (b.transaction_date::DATE = ta.transaction_date::DATE) AND ABS(ta.amount::NUMERIC(18,2) - b.transaction_amount::NUMERIC(18,2)) <= 0.01 THEN 'FALLBACK MATCH: Authorization Code + Same Day + Amount'",
    "        WHEN b.rrn IS NOT NULL AND ta.final_rrn = b.rrn AND ABS(ta.amount::NUMERIC(18,2) - b.transaction_amount::NUMERIC(18,2)) <= 1.0 THEN 'PARTIAL MATCH: RRN + Approx Amount'",
    "        WHEN b.authorization_code IS NOT NULL AND ta.final_authorization_code = b.authorization_code AND ABS(ta.amount::NUMERIC(18,2) - b.transaction_amount::NUMERIC(18,2)) <= 1.0 THEN 'PARTIAL MATCH: Authorization Code + Approx Amount'",
    "        WHEN b.authorization_code IS NOT NULL AND ta.final_authorization_code = b.authorization_code AND (b.transaction_date::DATE = ta.transaction_date::DATE) AND ABS(ta.amount::NUMERIC(18,2) - b.transaction_amount::NUMERIC(18,2)) <= 1.0 THEN 'PARTIAL MATCH: Authorization Code + Same Day + Approx Amount'",
    "        ELSE NULL",
    "    END::VARCHAR AS bank_match_type",
    "FROM transaction_with_analysis ta",
    "LEFT JOIN bank b ON",
    "    (",
    "        (ta.final_authorization_code = b.authorization_code AND ta.final_rrn = b.rrn AND ABS(ta.amount::NUMERIC(18,2) - b.transaction_amount::NUMERIC(18,2)) <= 0.01)",
    "        OR (ta.final_rrn = b.rrn AND ABS(ta.amount::NUMERIC(18,2) - b.transaction_amount::NUMERIC(18,2)) <= 0.01)",
    "        OR (ta.final_authorization_code = b.authorization_code AND ABS(ta.amount::NUMERIC(18,2) - b.transaction_amount::NUMERIC(18,2)) <= 0.01)",
    "        OR (ta.final_authorization_code = b.authorization_code AND (b.transaction_date::DATE = ta.transaction_date::DATE) AND ABS(ta.amount::NUMERIC(18,2) - b.transaction_amount::NUMERIC(18,2)) <= 0.01)",
    "        OR (ta.final_rrn = b.rrn AND ABS(ta.amount::NUMERIC(18,2) - b.transaction_amount::NUMERIC(18,2)) <= 1.0)",
    "        OR (ta.final_authorization_code = b.authorization_code AND ABS(ta.amount::NUMERIC(18,2) - b.transaction_amount::NUMERIC(18,2)) <= 1.0)",
    "        OR (ta.final_authorization_code = b.authorization_code AND (b.transaction_date::DATE = ta.transaction_date::DATE) AND ABS(ta.amount::NUMERIC(18,2) - b.transaction_amount::NUMERIC(18,2)) <= 1.0)",
    "    )"
    >>

\* line 750
PlainSelectParts ==
    <<
    "SELECT * FROM transaction_with_analysis"
    >>

\* gateway_select_template, lines 496-527
TemplatePortalMetabase ==
    <<
    "        ",
    "        -- Portal data",
    "        p.order_id::INTEGER AS portal_order_id_val, -- Renamed to avoid conflict with p.order_id for join",
    "        p.transaction_amount::NUMERIC(18,2) AS portal_amount,",
    "        p.gateway::VARCHAR AS portal_gateway,",
    "        p.status::VARCHAR AS portal_status,",
    "        p.payment_method::VARCHAR AS portal_payment_method,",
    "        p.transaction_date::DATE AS portal_transaction_date,",
    "        p.customer_name::VARCHAR AS portal_customer_name,",
    "        p.chef_name::VARCHAR AS portal_chef_name,",
    "        p.chef_total::NUMERIC(18,2) AS portal_chef_total,",
    "        p.commission_amount::NUMERIC(18,2) AS portal_commission_amount,",
    "        p.delivery_type::VARCHAR AS portal_delivery_type,",
    "        p.discount_type::VARCHAR AS portal_discount_type,",
    "        p.ispaid::VARCHAR AS portal_ispaid,",
    "        p.transaction_id::VARCHAR AS portal_transaction_id,",
    "        p.wallet_paid_amount::NUMERIC(18,2) AS portal_wallet_paid_amount,",
    "        p.promo_code_total_discount::NUMERIC(18,2) AS portal_promo_code_total_discount,",
    "        ",
    "        -- Metabase data",
    "        m.transaction_amount::NUMERIC(18,2) AS metabase_amount,",
    "        m.status::VARCHAR AS metabase_status,",
    "        m.gateway::VARCHAR AS metabase_gateway,",
    "        m.portal_order_id::INTEGER AS metabase_portal_order_id,",
    "        m.app_version::VARCHAR AS metabase_app_version,",
    "        m.platform::VARCHAR AS metabase_platform,",
    "        m.order_status::VARCHAR AS metabase_order_status,",
    "        m.order_total::NUMERIC(18,2) AS metabase_order_total,",
    "        m.hyperpay_transaction_id::VARCHAR AS metabase_hyperpay_transaction_id,",
    "        m.success::VARCHAR AS metabase_success,",
    "        m.transactiontype::VARCHAR AS metabase_transactiontype,",
    "        "
    >>

gw_specific_field_lists ==
    [checkout_v1 |-> checkout_v1_fields, checkout_v2 |-> checkout_v2_fields,
     payfort |-> payfort_fields, tamara |-> tamara_fields]

gateways_config ==
    [checkout_v1 |->
        [alias |-> "c1", table_name |-> "checkout_v1", gateway_order_id_type |-> "INTEGER",
         amount_col |-> "c1.transaction_amount", amount_type |-> "NUMERIC(18,2)",
         transaction_date_col |-> "c1.transaction_date", transaction_date_type |-> "DATE",
         auth_code_col |-> "c1.authorization_code", auth_code_type |-> "VARCHAR",
         rrn_col |-> "c1.rrn", rrn_type |-> "VARCHAR",
         payment_method_col |-> "c1.payment_method", payment_method_type |-> "VARCHAR",
         response_code_col |-> "c1.response_code", response_code_type |-> "VARCHAR",
         response_description_col |-> "c1.response_description", response_description_type |-> "VARCHAR",
         is_auth_expr |-> "(UPPER(c1.status) LIKE '%AUTHORISATION%' OR UPPER(c1.status) LIKE '%AUTHORIZATION%')",
         is_capture_expr |-> "(UPPER(c1.status) LIKE '%CAPTURE%')",
         is_refund_expr |-> "(UPPER(c1.status) LIKE '%REFUND%')",
         is_void_expr |-> "(UPPER(c1.status) LIKE '%VOID%' OR UPPER(c1.status) = 'CANCEL')",
         join_m_condition |-> "c1.order_id = m.gateway_order_id AND c1.payment_online_transaction_id = m.gateway_transaction_id"],
     checkout_v2 |->
        [alias |-> "c2", table_name |-> "checkout_v2", gateway_order_id_type |-> "INTEGER",
         amount_col |-> "c2.transaction_amount", amount_type |-> "NUMERIC(18,2)",
         transaction_date_col |-> "c2.action_date_utc_1", transaction_date_type |-> "DATE",
         auth_code_col |-> "c2.authorization_code", auth_code_type |-> "VARCHAR",
         rrn_col |-> "c2.rrn", rrn_type |-> "VARCHAR",
         payment_method_col |-> "c2.payment_method_name", payment_method_type |-> "VARCHAR",
         response_code_col |-> "c2.response_code", response_code_type |-> "VARCHAR",
         response_description_col |-> "c2.response_description", response_description_type |-> "VARCHAR",
         is_auth_expr |-> "(UPPER(c2.status) LIKE '%AUTHORISATION%' OR UPPER(c2.status) LIKE '%AUTHORIZATION%')",
         is_capture_expr |-> "(UPPER(c2.status) LIKE '%CAPTURE%')",
         is_refund_expr |-> "(UPPER(c2.status) LIKE '%REFUND%')",
         is_void_expr |-> "(UPPER(c2.status) LIKE '%VOID%' OR UPPER(c2.status) = 'CANCEL')",
         join_m_condition |-> "c2.order_id = m.gateway_order_id AND c2.payment_online_transaction_id = m.gateway_transaction_id"],
     payfort |->
        [alias |-> "pf", table_name |-> "payfort", gateway_order_id_type |-> "INTEGER",
         amount_col |-> "pf.transaction_amount", amount_type |-> "NUMERIC(18,2)",
         transaction_date_col |-> "pf.transaction_date", transaction_date_type |-> "DATE",
         auth_code_col |-> "pf.authorization_code", auth_code_type |-> "VARCHAR",
         rrn_col |-> "pf.rrn", rrn_type |-> "VARCHAR",
         payment_method_col |-> "pf.payment_method", payment_method_type |-> "VARCHAR",
         response_code_col |-> "''", response_code_type |-> "VARCHAR",
         response_description_col |-> "''", response_description_type |-> "VARCHAR",
         is_auth_expr |-> "(UPPER(pf.status) LIKE '%AUTHORIZATION%')",
         is_capture_expr |-> "(UPPER(pf.status) LIKE '%CAPTURE%')",
         is_refund_expr |-> "(UPPER(pf.status) LIKE '%REFUND%')",
         is_void_expr |-> "(UPPER(pf.status) LIKE '%VOID%' OR UPPER(pf.status) = 'CANCEL')",
         join_m_condition |-> "pf.order_id = m.gateway_order_id AND pf.payment_online_transaction_id = m.gateway_transaction_id"],
     tamara |->
        [alias |-> "t", table_name |-> "tamara", gateway_order_id_type |-> "INTEGER",
         amount_col |-> "t.txn_amount", amount_type |-> "NUMERIC(18,2)",
         transaction_date_col |-> "t.txn_created_at_gmt_03_00", transaction_date_type |-> "DATE",
         auth_code_col |-> "''", auth_code_type |-> "VARCHAR",
         rrn_col |-> "t.tamara_txn_reference", rrn_type |-> "VARCHAR",
         payment_method_col |-> "t.payment_method", payment_method_type |-> "VARCHAR",
         response_code_col |-> "''", response_code_type |-> "VARCHAR",
         response_description_col |-> "''", response_description_type |-> "VARCHAR",
         is_auth_expr |-> "(t.txn_type = 'AUTHORIZE')",
         is_capture_expr |-> "FALSE",
         is_refund_expr |-> "(t.txn_type = 'REFUND')",
         is_void_expr |-> "(t.txn_type = 'CANCEL')",
         join_m_condition |-> "t.payment_online_transaction_id = m.gateway_transaction_id"]]

\* lines 622-626: the placeholder another gateway's branch carries for a field
NullTypePart_AlwaysVarchar(field_def_str) == "VARCHAR"

NullTypePart(field_def_str) == Strip(SplitLast(SplitFirst(field_def_str, " AS "), "::"))

NullPlaceholder(field_def_str) ==
    LET field_alias == Strip(SplitLast(field_def_str, " AS "))
        type_part == NullTypePart(field_def_str)
    IN  "NULL::" \o type_part \o " AS " \o field_alias

\* lines 616-627: the column list of gw_key_for_cols inside the section of gw_name
ColsStr(gw_key_for_cols, gw_name) ==
    LET field_list_for_this_gw == gw_specific_field_lists[gw_key_for_cols]
    IN  IF gw_key_for_cols = gw_name
        THEN JoinLines(field_list_for_this_gw, ",", "        ")
        ELSE JoinLines([i \in 1..Len(field_list_for_this_gw) |->
                            NullPlaceholder(field_list_for_this_gw[i])], ",", "        ")

\* a placeholder of the template replaced by text of several lines
Expand(prefix, lines, suffix) ==
    [i \in 1..Len(lines) |->
        (IF i = 1 THEN prefix ELSE "") \o lines[i] \o (IF i = Len(lines) THEN suffix ELSE "")]

\* lines 479-537 and 629-651: the template filled in for one gateway
gateway_select_template(gw_name, date_filter_here) ==
    LET c == gateways_config[gw_name]
    IN  << "",
           "    SELECT",
           "        '" \o gw_name \o "'::VARCHAR AS gateway_source,",
           "        " \o c.alias \o ".order_id::" \o c.gateway_order_id_type \o " AS gateway_order_id,",
           "        " \o c.alias \o ".payment_online_transaction_id::VARCHAR AS gateway_transaction_id,",
           "        " \o c.amount_col \o "::" \o c.amount_type \o " AS amount,",
           "        " \o c.alias \o ".status::VARCHAR AS status,",
           "        " \o c.transaction_date_col \o "::" \o c.transaction_date_type \o " AS transaction_date,",
           "        " \o c.auth_code_col \o "::" \o c.auth_code_type \o " AS authorization_code,",
           "        " \o c.rrn_col \o "::" \o c.rrn_type \o " AS rrn,",
           "        " \o c.payment_method_col \o "::" \o c.payment_method_type \o " AS payment_method,",
           "        " \o c.response_code_col \o "::" \o c.response_code_type \o " AS response_code,",
           "        " \o c.response_description_col \o "::" \o c.response_description_type \o " AS response_description,",
           "        " \o c.is_auth_expr \o "::BOOLEAN AS is_auth,",
           "        " \o c.is_capture_expr \o "::BOOLEAN AS is_capture,",
           "        " \o c.is_refund_expr \o "::BOOLEAN AS is_refund,",
           "        " \o c.is_void_expr \o "::BOOLEAN AS is_void," >>
        \o TemplatePortalMetabase
        \o << "        -- Gateway-specific columns (actual for current, NULL for others)" >>
        \o Expand("        ", ColsStr("checkout_v1", gw_name), ",")
        \o Expand("        ", ColsStr("checkout_v2", gw_name), ",")
        \o Expand("        ", ColsStr("payfort", gw_name), ",")
        \o Expand("        ", ColsStr("tamara", gw_name), "")
        \o << "    FROM " \o c.table_name \o " " \o c.alias,
              "    JOIN metabase m ON " \o c.join_m_condition,
              "    JOIN portal p ON m.portal_order_id = p.order_id -- Original p.order_id used for join",
              "    " \o date_filter_here,
              "    " >>

\* line 654: the sections joined by "\n    UNION ALL\n"
gw_sections_sql(date_filter_clause) ==
    gateway_select_template(gateway_names_ordered[1], date_filter_clause)
    \o << "    UNION ALL" >> \o gateway_select_template(gateway_names_ordered[2], date_filter_clause)
    \o << "    UNION ALL" >> \o gateway_select_template(gateway_names_ordered[3], date_filter_clause)
    \o << "    UNION ALL" >> \o gateway_select_template(gateway_names_ordered[4], date_filter_clause)

\* lines 472-475; a key the dictionary lacks reads as the empty string
DateFilterClause(df) ==
    IF df # Null /\ Val(df).enabled /\ Val(df).start_date # "" /\ Val(df).end_date # ""
    THEN "WHERE p.transaction_date::DATE BETWEEN '" \o Val(df).start_date
         \o "'::DATE AND '" \o Val(df).end_date \o "'::DATE"
    ELSE ""

\* lines 437-750: the parts of the view definition, line by line
query_parts(recon, df) ==
    IndexBlockOpen
    \o (IF recon THEN BankIndexStatements ELSE <<>>)
    \o ViewHeader
    \o gw_sections_sql(DateFilterClause(df))
    \o << ")," >>
    \o RankedTransactionsParts
    \o TransactionWithAnalysisParts
    \o (IF recon THEN ReconciliationSelectParts ELSE PlainSelectParts)

\* line 753: "\n".join(query_parts) + ";"
ViewDefinition_NoSemicolon(recon, df) == query_parts(recon, df)

view_definition_sql(recon, df) ==
    LET parts == query_parts(recon, df)
    IN  [i \in 1..Len(parts) |-> IF i = Len(parts) THEN parts[i] \o ";" ELSE parts[i]]

(***************************************************************************)
(* extract_view_field_aliases: re.findall(r'AS\s+([a-zA-Z0-9_]+)', part)   *)
(* over every part.                                                        *)
(***************************************************************************)
Alphabet == "0123456789ABCDEFGHIJKLMNOPQRSTUVWXYZ_abcdefghijklmnopqrstuvwxyz"

IdentChars == {CharAt(Alphabet, i) : i \in 1..Len(Alphabet)}

\* the first match of the pattern at or after position from: <<>> when there
\* is none, else <<the captured name, the position after it>>
FirstAsMatch(part, from) ==
    LET n == Len(part)
        \* where the blanks after "AS" end
        NameStart(i) ==
            LET inked == {j \in (i + 2)..n : CharAt(part, j) # " "}
            IN  IF inked = {} THEN n + 1 ELSE MinOf(inked)
        starts == {i \in from..(n - 3) :
                      /\ SubSeq(part, i, i + 2) = "AS "
                      /\ NameStart(i) <= n
                      /\ CharAt(part, NameStart(i)) \in IdentChars}
    IN  IF starts = {} THEN <<>>
        ELSE LET i == MinOf(starts)
                 k == NameStart(i)
                 others == {j \in k..n : CharAt(part, j) \notin IdentChars}
                 e == IF others = {} THEN n ELSE MinOf(others) - 1
             IN  <<SubSeq(part, k, e), e + 1>>

RECURSIVE FindAllAs(_, _)
FindAllAs(part, from) ==
    LET m == FirstAsMatch(part, from)
    IN  IF m = <<>> THEN {} ELSE {m[1]} \cup FindAllAs(part, m[2])

extract_view_field_aliases(parts) ==
    UNION {FindAllAs(parts[i], 1) : i \in 1..Len(parts)}

(***************************************************************************)
(* The names of the final SELECT.                                          *)
(***************************************************************************)
ESSENTIAL_FIELDS ==
    << "gateway_source", "gateway_order_id", "gateway_transaction_id",
       "amount", "status", "transaction_date", "authorization_code", "rrn",
       "payment_method", "response_code", "response_description",
       "is_auth", "is_capture", "is_refund", "is_void",
       "final_rrn", "final_authorization_code",
       "transaction_analysis", "transaction_outcome" >>

default_fields == <<"gateway_order_id", "transaction_date", "amount", "status", "gateway_source">>

\* get_field_mapping
field_alias_mapping ==
    [ bank_authorization_code |-> "bank_auth_code",
      bank_payment_online_transaction_id |-> "bank_payment_id",
      bank_transaction_amount |-> "bank_amount",
      checkout_v1_payment_id |-> "checkout_v1_payment_online_transaction_id",
      checkout_v2_payment_id |-> "checkout_v2_payment_online_transaction_id",
      checkout_v2_payment_method |-> "checkout_v2_payment_method_name",
      checkout_v2_currency |-> "checkout_v2_currency_symbol",
      payfort_payment_id |-> "payfort_payment_online_transaction_id",
      tamara_payment_id |-> "tamara_payment_online_transaction_id",
      tamara_transaction_amount |-> "tamara_txn_amount",
      tamara_transaction_date |-> "tamara_txn_created_at_gmt_03_00",
      tamara_order_created_at |-> "tamara_order_created_at_gmt_03_00",
      portal_order_id |-> "portal_order_id_val" ]

SeqToSet(s) == {s[i] : i \in 1..Len(s)}

\* lines 769-809: source key and field name to the prefix-qualified name
\* (Null is None)
Prefixed(prefix, field_name) ==
    IF StartsWith(field_name, prefix) THEN field_name ELSE prefix \o field_name

QualifiedName(source_key, field_name, recon) ==
    CASE source_key = "portal" ->
            LET a == Prefixed("portal_", field_name)
            IN  Some(IF a = "portal_order_id" THEN "portal_order_id_val" ELSE a)
      [] source_key = "metabase" -> Some(Prefixed("metabase_", field_name))
      [] source_key = "bank" ->
            IF ~recon THEN Null ELSE Some(Prefixed("bank_", field_name))
      [] source_key = "analysis" -> Some(field_name)
      [] source_key \in {"checkout_v1", "checkout_v2", "payfort", "tamara"} ->
            Some(Prefixed(source_key \o "_", field_name))
      [] OTHER -> Null

\* lines 811-816: the name that joins processed_selected_fields, if any
AliasToAdd(source_key, field_name, recon) ==
    LET a == QualifiedName(source_key, field_name, recon)
    IN  IF a = Null \/ Val(a) = "" THEN {}
        ELSE IF Val(a) \in DOMAIN field_alias_mapping
             THEN {field_alias_mapping[Val(a)]}
             ELSE {Val(a)}

\* lines 762-827; sel is the dictionary: a function from its keys to lists
SelectedAliases(sel, recon) ==
    UNION { UNION {AliasToAdd(k, sel[k][i], recon) : i \in 1..Len(sel[k])} : k \in DOMAIN sel }

ProcessedSelectedFields_NoEssential(sel, recon) ==
    LET chosen == SelectedAliases(sel, recon)
    IN  IF chosen = {} THEN SeqToSet(default_fields) ELSE chosen

ProcessedSelectedFields(sel, recon) ==
    LET withEssential == SelectedAliases(sel, recon) \cup SeqToSet(ESSENTIAL_FIELDS)
    IN  IF withEssential = {} THEN SeqToSet(default_fields) ELSE withEssential

\* Python's order of strings: by code point, a proper prefix first
Ord == [c \in IdentChars |-> MinOf(Occurrences(Alphabet, c))]

\* the first position from i on at which a and b differ or one of them ends
RECURSIVE FirstDifference(_, _, _)
FirstDifference(a, b, i) ==
    IF i > Len(a) \/ i > Len(b) \/ CharAt(a, i) # CharAt(b, i) THEN i
    ELSE FirstDifference(a, b, i + 1)

StrLess(a, b) ==
    LET d == FirstDifference(a, b, 1)
    IN  IF d > Len(a) THEN d <= Len(b)
        ELSE IF d > Len(b) THEN FALSE
        ELSE Ord[CharAt(a, d)] < Ord[CharAt(b, d)]

\* line 830: sorted(list(set(...)))
RECURSIVE Sorted(_)
Sorted(S) ==
    IF S = {} THEN <<>>
    ELSE LET m == CHOOSE x \in S : \A y \in S : x = y \/ StrLess(x, y)
         IN  <<m>> \o Sorted(S \ {m})

\* lines 836-844
ValidatedSelectAliases_Unchecked(final_select_aliases, view_aliases) == final_select_aliases

RECURSIVE ValidatedSelectAliases(_, _)
ValidatedSelectAliases(final_select_aliases, view_aliases) ==
    IF final_select_aliases = <<>> THEN <<>>
    ELSE LET alias == Head(final_select_aliases)
             rest == ValidatedSelectAliases(Tail(final_select_aliases), view_aliases)
         IN  IF alias \in view_aliases THEN <<alias>> \o rest
             ELSE IF alias \in DOMAIN field_alias_mapping
                     /\ field_alias_mapping[alias] \in view_aliases
                  THEN <<field_alias_mapping[alias]>> \o rest
                  ELSE rest

\* list.remove(x): the list without the first occurrence of x
RemoveFirst(s, x) ==
    LET at == MinOf({i \in 1..Len(s) : s[i] = x})
    IN  SubSeq(s, 1, at - 1) \o SubSeq(s, at + 1, Len(s))

\* lines 847-856: with return_distinct_orders the key column comes first
OrderedForSelect(validated, distinct) ==
    IF distinct
    THEN IF "gateway_order_id" \in SeqToSet(validated)
         THEN <<"gateway_order_id">> \o RemoveFirst(validated, "gateway_order_id")
         ELSE <<"gateway_order_id">> \o validated
    ELSE validated

Truthy(lim) == lim # Null /\ Val(lim) # 0

\* lines 847-864
FinalSelectStatement(cols, distinct, lim) ==
    LET head == IF distinct THEN "SELECT DISTINCT ON (gateway_order_id)" ELSE "SELECT"
        list == IF cols = <<>> THEN <<"">> ELSE JoinLines(cols, ",", "    ")
        body == <<head>> \o Expand("    ", list, "") \o <<"FROM payment_analysis_view">>
        text == IF Truthy(lim) THEN body \o <<"LIMIT " \o ToString(Val(lim))>> ELSE body
    IN  [i \in 1..Len(text) |-> IF i = Len(text) THEN text[i] \o ";" ELSE text[i]]

(***************************************************************************)
(* Specification SpecFields: generate_payment_analysis_query called with   *)
(* any arguments of the domains below.                                     *)
(***************************************************************************)
MaxSelectedSources == 2

\* None, the dictionary the GUI passes when the filter is off, and a range
DateFilters ==
    { Null,
      Some([enabled |-> FALSE, start_date |-> "", end_date |-> ""]),
      Some([enabled |-> TRUE, start_date |-> "2024-01-01", end_date |-> "2024-01-31"]) }

Limits == {Null, Some(0), Some(5)}

SourceKeys == {"portal", "metabase", "bank", "analysis", "checkout_v1", "tamara", "wallet"}

\* the lists a source key may carry: bare names, names that already carry the
\* prefix, names of the alias table, names of no column, and the empty list
FieldListsOf ==
    [ portal      |-> {<<>>, <<"chef_name">>, <<"order_id">>, <<"portal_chef_name">>},
      metabase    |-> {<<>>, <<"amount">>},
      bank        |-> {<<>>, <<"transaction_amount">>, <<"rrn", "bank_status">>},
      analysis    |-> {<<>>, <<"bank_match_type">>, <<"no_such_column">>},
      checkout_v1 |-> {<<>>, <<"payment_id">>, <<"amount", "checkout_v1_rrn">>},
      tamara      |-> {<<>>, <<"transaction_date">>, <<"transaction_amount">>},
      wallet      |-> {<<"balance">>} ]

SelectedFieldsOver(D) ==
    {f \in [D -> UNION {FieldListsOf[k] : k \in D}] : \A k \in D : f[k] \in FieldListsOf[k]}

SelectedFieldsDomain ==
    UNION {SelectedFieldsOver(D) : D \in {D \in SUBSET SourceKeys : Cardinality(D) <= MaxSelectedSources}}

\* line 756 and line 753, once per view definition
ViewAliasesOf ==
    [recon \in BOOLEAN, df \in DateFilters |-> extract_view_field_aliases(query_parts(recon, df))]

ViewDefinitionSqlOf ==
    [recon \in BOOLEAN, df \in DateFilters |-> view_definition_sql(recon, df)]

InitFields ==
    /\ phase = "arguments"
    /\ include_reconciliation \in BOOLEAN
    /\ selected_fields \in SelectedFieldsDomain
    /\ date_filter \in DateFilters
    /\ limit \in Limits
    /\ return_distinct_orders \in BOOLEAN
    /\ validated_select_aliases = <<>>
    /\ query = <<>>
    /\ TablesIdle
    /\ CleanerIdle
    /\ PipelineIdle

\* generate_payment_analysis_query, lines 425-867
GeneratePaymentAnalysisQuery ==
    /\ phase = "arguments"
    /\ phase' = "returned"
    /\ LET view_aliases == ViewAliasesOf[include_reconciliation, date_filter]
           final_select_aliases ==
               Sorted(ProcessedSelectedFields(selected_fields, include_reconciliation))
           validated ==
               OrderedForSelect(ValidatedSelectAliases(final_select_aliases, view_aliases),
                                return_distinct_orders)
       IN  /\ validated_select_aliases' = validated
           /\ query' = ViewDefinitionSqlOf[include_reconciliation, date_filter] \o <<"">>
                       \o FinalSelectStatement(validated, return_distinct_orders, limit)
    /\ UNCHANGED <<include_reconciliation, selected_fields, date_filter, limit,
                   return_distinct_orders, table_vars, cleaner_vars,
                   pipeline_vars>>

NextFields == GeneratePaymentAnalysisQuery

SpecFields == InitFields /\ [][NextFields]_vars

(***************************************************************************)
(* Specification SpecText: the same call, with few field selections and    *)
(* every combination of the parameters that shape the text.                *)
(***************************************************************************)
TextSelections ==
    { <<>>,
      [checkout_v1 |-> <<"payment_id", "amount">>, bank |-> <<"rrn">>],
      [portal |-> <<"chef_name">>, analysis |-> <<"bank_match_type", "no_such_column">>] }

InitText ==
    /\ phase = "arguments"
    /\ include_reconciliation \in BOOLEAN
    /\ selected_fields \in TextSelections
    /\ date_filter \in DateFilters
    /\ limit \in Limits
    /\ return_distinct_orders \in BOOLEAN
    /\ validated_select_aliases = <<>>
    /\ query = <<>>
    /\ TablesIdle
    /\ CleanerIdle
    /\ PipelineIdle

SpecText == InitText /\ [][NextFields]_vars

(***************************************************************************)
(* Properties of the final SELECT (SpecFields).                            *)
(***************************************************************************)
\* a line of SQL without its trailing comment, blanks and comma
SelectItemOf(line) ==
    LET code == Strip(SplitFirst(line, "--"))
    IN  IF EndsWith(code, ",") THEN Strip(SubSeq(code, 1, Len(code) - 1)) ELSE code

IsIdentifier(s) == s # "" /\ \A i \in 1..Len(s) : CharAt(s, i) \in IdentChars

\* the column a line of a select list defines: the identifier that ends the
\* item after its last " AS ", or "" when the line defines none
ColumnAliasOf(line) ==
    LET item == SelectItemOf(line)
    IN  IF Occurrences(item, " AS ") = {} THEN ""
        ELSE LET a == Strip(SplitLast(item, " AS "))
             IN  IF IsIdentifier(a) THEN a ELSE ""

\* the columns of payment_analysis_view: every CTE passes its input through
\* with *, so the view carries the columns of all select lists of its text
ViewColumnsOf ==
    [recon \in BOOLEAN, df \in DateFilters |->
        LET text == view_definition_sql(recon, df)
        IN  {ColumnAliasOf(text[i]) : i \in 1..Len(text)} \ {""}]

ViewColumns == ViewColumnsOf[include_reconciliation, date_filter]

\* the column list of the final SELECT, read back from the returned text: the
\* lines between the head of the last statement and its FROM line
FinalSelectColumns ==
    LET blanks == {i \in 1..Len(query) : query[i] = ""}
        first == MaxOf(blanks) + 1
        from == MinOf({i \in first..Len(query) : StartsWith(query[i], "FROM payment_analysis_view")})
    IN  [i \in 1..(from - first - 1) |-> SelectItemOf(query[first + i])]

\* the prefix-qualified name of a requested field
RequestedName(source_key, field_name) ==
    IF source_key = "analysis" THEN field_name
    ELSE IF StartsWith(field_name, source_key \o "_") THEN field_name
    ELSE source_key \o "_" \o field_name

Requests ==
    UNION {{RequestedName(k, selected_fields[k][i]) : i \in 1..Len(selected_fields[k])}
           : k \in DOMAIN selected_fields}

Resolvable(name) ==
    \/ name \in ViewColumns
    \/ name \in DOMAIN field_alias_mapping /\ field_alias_mapping[name] \in ViewColumns

NoFieldsSupplied == \A k \in DOMAIN selected_fields : selected_fields[k] = <<>>

\* C5: every requested name that is itself a column of the view appears
\* unchanged in the final SELECT column list.
C5_ViewColumnKeptUnchanged ==
    phase = "returned" =>
        LET cols == SeqToSet(FinalSelectColumns)
        IN  \A name \in Requests : name \in ViewColumns => name \in cols

\* C6: the generator returns a text whose final SELECT lists only columns of
\* the generated view, the list read from the text is the validated list, and
\* no requested name that cannot be resolved is in it.
C6_OnlyViewColumns ==
    phase = "returned" =>
        LET cols == FinalSelectColumns
        IN  /\ cols = validated_select_aliases
            /\ Len(cols) > 0
            /\ \A i \in 1..Len(cols) : cols[i] \in ViewColumns
            /\ \A name \in Requests : ~Resolvable(name) => name \notin SeqToSet(cols)

C6_Witness ==
    /\ phase = "returned"
    /\ \E name \in Requests : ~Resolvable(name)
    /\ \E name \in Requests : name \notin ViewColumns /\ Resolvable(name)
    /\ return_distinct_orders /\ limit = Some(5) /\ date_filter # Null /\ Val(date_filter).enabled

Tabulated(s) == SubSeq(s, 1, Len(s))

IsItemLine(line) == SelectItemOf(line) # ""

\* a select item "expr::type AS alias" taken apart at its last " AS " and at
\* the last "::" before it
ParseItem(line) ==
    LET item == SelectItemOf(line)
        head == SubSeq(item, 1, MaxOf(Occurrences(item, " AS ") \cup {1}) - 1)
        casts == Occurrences(head, "::")
    IN  [ alias |-> ColumnAliasOf(line),
          cast  |-> IF casts = {} THEN "" ELSE SubSeq(head, MaxOf(casts) + 2, Len(head)),
          expr  |-> IF casts = {} THEN head ELSE SubSeq(head, 1, MaxOf(casts) - 1) ]

\* the lines of the gateway_analysis CTE in the returned text
GatewayAnalysisText ==
    LET open == MinOf({i \in 1..Len(query) : query[i] = "gateway_analysis AS ("})
        close == MinOf({i \in open..Len(query) : query[i] = "),"})
    IN  SubSeq(query, open + 1, close - 1)

\* the select lists of its UNION ALL branches, in order
UnionBranches ==
    LET text == GatewayAnalysisText
        cuts == {0, Len(text) + 1} \cup {i \in 1..Len(text) : Strip(text[i]) = "UNION ALL"}
        starts == {c \in cuts : c <= Len(text)}
        Branch(c) ==
            LET next == MinOf({d \in cuts : d > c})
                select == MinOf({i \in (c + 1)..(next - 1) : Strip(text[i]) = "SELECT"})
                from == MinOf({i \in select..(next - 1) : StartsWith(Strip(text[i]), "FROM ")})
                items == SelectSeq(SubSeq(text, select + 1, from - 1), IsItemLine)
            IN  Tabulated([p \in 1..Len(items) |-> ParseItem(items[p])])
    IN  Tabulated([g \in 1..Cardinality(starts) |->
                      Branch(CHOOSE c \in starts : Cardinality({d \in starts : d < c}) = g - 1)])

\* C8: the four branches of gateway_analysis carry the same aliases with the
\* same cast type position by position, and a column named after a gateway
\* has a real expression in that gateway's branch and NULL in the others.
C8_UnionBranchesAligned ==
    phase = "returned" =>
        \A b \in {UnionBranches} :
            /\ Len(b) = Len(gateway_names_ordered)
            /\ \A g \in 1..Len(b) :
                   /\ Len(b[g]) = Len(b[1])
                   /\ b[g][1].alias = "gateway_source"
                   /\ b[g][1].expr = "'" \o gateway_names_ordered[g] \o "'"
                   /\ \A p \in 1..Len(b[g]) :
                          /\ b[g][p].alias # "" /\ b[g][p].cast # ""
                          /\ b[g][p].alias = b[1][p].alias
                          /\ b[g][p].cast = b[1][p].cast
            /\ \A g \in 1..Len(b), p \in 1..Len(b[1]) :
                   StartsWith(b[1][p].alias, gateway_names_ordered[g] \o "_") =>
                       \A h \in 1..Len(b) : (b[h][p].expr = "NULL") <=> (h # g)
            /\ \A g \in 1..Len(b) :
                   LET own == gw_specific_field_lists[gateway_names_ordered[g]]
                   IN  \A i \in 1..Len(own) : ParseItem(own[i]) \in SeqToSet(b[g])

C8_Witness ==
    /\ phase = "returned"
    /\ date_filter # Null /\ Val(date_filter).enabled
    /\ \E b \in {UnionBranches} :
           \E p \in 1..Len(b[1]) :
               /\ b[1][p].alias = "tamara_total_amount"
               /\ b[1][p].expr = "NULL" /\ b[1][p].cast = "NUMERIC(18,2)"
               /\ b[4][p].expr = "t.total_amount"

\* the semicolons of a line that end a statement: those outside a
\* dollar-quoted body and outside a quoted literal
Terminators(code, inDollar) ==
    LET dollars == Occurrences(code, "$$")
        quotes == Occurrences(code, "'")
    IN  {p \in Occurrences(code, ";") :
            /\ (Cardinality({d \in dollars : d < p}) + (IF inDollar THEN 1 ELSE 0)) % 2 = 0
            /\ Cardinality({q \in quotes : q < p}) % 2 = 0}

\* the statements of a text: each a sequence of its lines without comments
\* and blank lines, the last one ending with the terminating semicolon; text
\* after the last semicolon is a statement of its own
SplitStatements(lines) ==
    LET Code(i) == SplitFirst(lines[i], "--")
        toggles == {i \in 1..Len(lines) : Cardinality(Occurrences(Code(i), "$$")) % 2 = 1}
        InDollar(i) == Cardinality({j \in toggles : j < i}) % 2 = 1
        terms == UNION {{<<i, p>> : p \in Terminators(Code(i), InDollar(i))} : i \in 1..Len(lines)}
        Before(a, b) == a[1] < b[1] \/ (a[1] = b[1] /\ a[2] < b[2])
        n == Cardinality(terms)
        term == [k \in 1..n |-> CHOOSE x \in terms : Cardinality({y \in terms : Before(y, x)}) = k - 1]
        Statement(k) ==
            LET a == IF k = 1 THEN <<1, 0>> ELSE term[k - 1]
                b == IF k <= n THEN term[k] ELSE <<Len(lines), Len(Code(Len(lines)))>>
                pieces == [j \in 1..(b[1] - a[1] + 1) |->
                              LET i == a[1] + j - 1
                              IN  Strip(SubSeq(Code(i), IF i = a[1] THEN a[2] + 1 ELSE 1,
                                                        IF i = b[1] THEN b[2] ELSE Len(Code(i))))]
            IN  SelectSeq(pieces, LAMBDA x : x # "")
        all == Tabulated([k \in 1..(n + 1) |-> Statement(k)])
    IN  IF all[n + 1] = <<>> THEN SubSeq(all, 1, n) ELSE all

Statements == SplitStatements(query)

\* a line of the DO block that creates an index does so under a guard that
\* looks the same index up in pg_indexes
GuardedIndexCreation(line) ==
    LET guard == "IF NOT EXISTS (SELECT 1 FROM pg_indexes WHERE indexname = '"
        creates == Occurrences(line, "CREATE INDEX ")
        after == SubSeq(line, MinOf(creates) + Len("CREATE INDEX "), Len(line))
        name == SplitFirst(after, " ")
    IN  /\ Cardinality(creates) = 1
        /\ StartsWith(line, guard \o name \o "') THEN CREATE INDEX " \o name \o " ON ")
        /\ EndsWith(line, "; END IF;")

Mentions(statement, word) == \E i \in 1..Len(statement) : Occurrences(statement[i], word) # {}

\* C9: the text is four statements: the DO block of guarded index
\* creations, DROP VIEW IF EXISTS, the view creation, and the final SELECT
\* from the view, which is no part of the view creation.
C9_FourStatements ==
    phase = "returned" =>
        \A st \in {Statements} :
            /\ Len(st) = 4
            /\ st[1][1] = "DO $$" /\ st[1][2] = "BEGIN" /\ st[1][Len(st[1])] = "END$$;"
            /\ Mentions(st[1], "CREATE INDEX ")
            /\ \A i \in 3..(Len(st[1]) - 1) : GuardedIndexCreation(st[1][i])
            /\ st[2] = <<"DROP VIEW IF EXISTS payment_analysis_view;">>
            /\ st[3][1] = "CREATE OR REPLACE VIEW payment_analysis_view AS"
            /\ EndsWith(st[3][Len(st[3])], ";")
            /\ ~Mentions(st[3], "FROM payment_analysis_view")
            /\ StartsWith(st[4][1], "SELECT")
            /\ Mentions(st[4], "FROM payment_analysis_view")
            /\ ~Mentions(st[4], "CREATE") /\ ~Mentions(st[4], "DROP")
            /\ EndsWith(st[4][Len(st[4])], ";")
            /\ \A s \in 1..3 : \A i \in 1..(Len(st[s]) - 1) : ~EndsWith(st[s][i], "$$;")

C9_Witness ==
    /\ phase = "returned"
    /\ include_reconciliation /\ return_distinct_orders /\ limit = Some(5)
    /\ date_filter # Null /\ Val(date_filter).enabled
    /\ \E st \in {Statements} :
           /\ Len(st) = 4
           /\ st[4][1] = "SELECT DISTINCT ON (gateway_order_id)"
           /\ st[4][Len(st[4])] = "LIMIT 5;"
           /\ Mentions(st[1], "idx_bank_rrn")


(***************************************************************************)
(* The column cleaners of data_cleaner.py.                                 *)
(*                                                                         *)
(* A column (pandas Series) is the sequence of its cells.  A cell is Null  *)
(* (None, NaN, pd.NA and NaT alike: what isna() reports) or a tagged       *)
(* value: a str, an Int64, a Float64, a boolean, a datetime64 or a time.   *)
(* Float64 values are held in thousandths and timestamps to the second, so *)
(* the texts of the model carry at most three decimals.                    *)
(***************************************************************************)
Str(s) == <<"str", s>>
Int64(n) == <<"Int64", n>>
Float64(thousandths) == <<"Float64", thousandths>>
Boolean(b) == <<"boolean", b>>
Timestamp(date, seconds) == <<"datetime64", date.year, date.month, date.day, seconds>>
TimeOfDay(seconds) == <<"time", seconds>>

IsNa(cell) == cell = Null
IsStr(cell) == cell # Null /\ cell[1] = "str"
StrOf(cell) == cell[2]

\* series.astype(str) on a cell of an object column: the text itself; a
\* null reads 'None', 'nan' or '<NA>', which every cleaner treats alike
AsStr(cell) == IF IsNa(cell) THEN "nan" ELSE StrOf(cell)

\* a cleaner ends by returning a column or by raising
Returned(column) == [raised |-> FALSE, column |-> column]
Raised == [raised |-> TRUE, column |-> <<>>]

Digits == "0123456789"
UpperLetters == "ABCDEFGHIJKLMNOPQRSTUVWXYZ"
LowerLetters == "abcdefghijklmnopqrstuvwxyz"
\* the whitespace and control characters a text of the model can hold
Whitespace == {" ", "\t", "\n", "\r", "\f"}
ControlChars == {"\t", "\n", "\r", "\f"}

IsDigit(c) == Occurrences(Digits, c) # {}
DigitValue(c) == MinOf(Occurrences(Digits, c)) - 1
AllDigits(s) == \A i \in 1..Len(s) : IsDigit(CharAt(s, i))

\* int(s) of a text of digits
RECURSIVE Number(_)
Number(s) ==
    IF s = "" THEN 0
    ELSE Number(SubSeq(s, 1, Len(s) - 1)) * 10 + DigitValue(CharAt(s, Len(s)))

\* str.lower()
LowerChar(c) ==
    IF Occurrences(UpperLetters, c) = {} THEN c
    ELSE CharAt(LowerLetters, MinOf(Occurrences(UpperLetters, c)))

RECURSIVE Lower(_)
Lower(s) == IF s = "" THEN "" ELSE LowerChar(CharAt(s, 1)) \o Lower(SubSeq(s, 2, Len(s)))

\* str.strip(): without the whitespace at both ends
StripWs(s) ==
    LET inked == {i \in 1..Len(s) : CharAt(s, i) \notin Whitespace}
    IN  IF inked = {} THEN "" ELSE SubSeq(s, MinOf(inked), MaxOf(inked))

\* re.sub of a character class by '': the text without the characters of drop
RECURSIVE Without(_, _)
Without(s, drop) ==
    IF s = "" THEN ""
    ELSE (IF CharAt(s, 1) \in drop THEN "" ELSE CharAt(s, 1)) \o Without(SubSeq(s, 2, Len(s)), drop)

\* str.replace(old, new): every occurrence, left to right, not overlapping
RECURSIVE ReplaceAll(_, _, _)
ReplaceAll(s, old, new) ==
    IF Len(s) < Len(old) THEN s
    ELSE IF StartsWith(s, old) THEN new \o ReplaceAll(SubSeq(s, Len(old) + 1, Len(s)), old, new)
    ELSE CharAt(s, 1) \o ReplaceAll(SubSeq(s, 2, Len(s)), old, new)

(***************************************************************************)
(* pd.to_numeric(..., errors='coerce') on one cell: the value in           *)
(* thousandths, or Null where the text is no number.  The texts read are   *)
(* an optional sign, digits and at most one decimal point, with blanks     *)
(* around them; the empty text and every other text give NaN.              *)
(***************************************************************************)
Thousand == 1000

RECURSIVE PadRight(_, _)
PadRight(s, n) == IF Len(s) >= n THEN s ELSE PadRight(s \o "0", n)

ParseNumber(s) ==
    LET t == StripWs(s)
        signed == t # "" /\ CharAt(t, 1) \in {"-", "+"}
        body == IF signed THEN SubSeq(t, 2, Len(t)) ELSE t
        whole == SplitFirst(body, ".")
        points == Occurrences(body, ".")
        frac == IF points = {} THEN "" ELSE SubSeq(body, MinOf(points) + 1, Len(body))
        magnitude == Number(whole) * Thousand + Number(PadRight(frac, 3))
    IN  IF /\ Cardinality(points) <= 1
           /\ AllDigits(whole) /\ AllDigits(frac)
           /\ Len(whole) + Len(frac) > 0
           /\ Len(frac) <= 3
        THEN Some(IF signed /\ CharAt(t, 1) = "-" THEN 0 - magnitude ELSE magnitude)
        ELSE Null

to_numeric(cell) == IF IsNa(cell) THEN Null ELSE ParseNumber(StrOf(cell))

\* IntegerCleaner.clean, lines 108-119: astype(Int64) raises on a value
\* that is no whole number
IntegerCleaner(column, opts) ==
    LET numeric_series == [i \in 1..Len(column) |-> to_numeric(column[i])]
        Whole(v) == v = Null \/ Val(v) % Thousand = 0
    IN  IF \E i \in 1..Len(column) : ~Whole(numeric_series[i]) THEN Raised
        ELSE Returned([i \in 1..Len(column) |->
                 IF numeric_series[i] = Null THEN Null
                 ELSE Int64(Val(numeric_series[i]) \div Thousand)])

\* FloatCleaner.clean, lines 122-161
FloatNullTexts == {"", "None", "NULL", "null", "NA", "N/A", "na", "n/a", "<NA>"}

NumericChars == {CharAt(Digits, i) : i \in 1..Len(Digits)} \cup {".", "-"}

RECURSIVE KeepOnly(_, _)
KeepOnly(s, keep) ==
    IF s = "" THEN ""
    ELSE (IF CharAt(s, 1) \in keep THEN CharAt(s, 1) ELSE "") \o KeepOnly(SubSeq(s, 2, Len(s)), keep)

FloatCell(cell) ==
    LET str_value == AsStr(cell)
        null_mask == IsNa(cell) \/ StripWs(str_value) \in FloatNullTexts
        cleaned == KeepOnly(str_value, NumericChars)
        numeric == IF null_mask \/ cleaned = "" THEN Null ELSE ParseNumber(cleaned)
    IN  IF numeric = Null THEN Null ELSE Float64(Val(numeric))

FloatCleaner(column, opts) == Returned([i \in 1..Len(column) |-> FloatCell(column[i])])

(***************************************************************************)
(* Dates and times of day.                                                 *)
(***************************************************************************)
IsLeap(y) == (y % 4 = 0 /\ y % 100 # 0) \/ y % 400 = 0

DaysInMonth(y, m) ==
    IF m = 2 THEN (IF IsLeap(y) THEN 29 ELSE 28)
    ELSE IF m \in {4, 6, 9, 11} THEN 30 ELSE 31

\* the years a datetime64[ns] holds in full
MinTimestampYear == 1678
MaxTimestampYear == 2261

\* the calendar date of a day count from 1970-01-01 (proleptic Gregorian)
CivilFromDays(days) ==
    LET z == days + 719468
        era == z \div 146097
        doe == z - era * 146097
        yoe == (doe - doe \div 1460 + doe \div 36524 - doe \div 146096) \div 365
        doy == doe - (365 * yoe + yoe \div 4 - yoe \div 100)
        mp == (5 * doy + 2) \div 153
        d == doy - (153 * mp + 2) \div 5 + 1
        m == IF mp < 10 THEN mp + 3 ELSE mp - 9
        y == yoe + era * 400 + (IF m <= 2 THEN 1 ELSE 0)
    IN  [year |-> y, month |-> m, day |-> d]

\* Timestamp('1899-12-30') as a day count from 1970-01-01
ExcelBaseDays == 0 - 25569
\* the largest whole number of days a pd.Timedelta holds
MaxTimedeltaDays == 106751
SecondsPerDay == 86400


\* the first of two results that is not null
OrElse(first, second) == IF first # Null THEN first ELSE second

\* the number written in the width characters of s from position i, or -1
NumberAt(s, i, width) ==
    IF i + width - 1 <= Len(s) /\ AllDigits(SubSeq(s, i, i + width - 1))
    THEN Number(SubSeq(s, i, i + width - 1)) ELSE 0 - 1

\* the alternative <<value, next position>> if the value is in range
InRange(value, lo, hi, next) ==
    IF value >= lo /\ value <= hi THEN <<<<value, next>>>> ELSE <<>>

\* the numeric directives: the range of their two-digit form and the least
\* value of their one-digit form
DirectiveRange ==
    [ d |-> <<1, 31, 1>>, m |-> <<1, 12, 1>>, I |-> <<1, 12, 1>>,
      H |-> <<0, 23, 0>>, M |-> <<0, 59, 0>>, S |-> <<0, 61, 0>> ]

Ranged(s, i, range) ==
    InRange(NumberAt(s, i, 2), range[1], range[2], i + 2)
    \o InRange(NumberAt(s, i, 1), range[3], 9, i + 1)

\* %p: AM or PM in any case, read as 0 or 1
Meridiem(letters, next) ==
    IF letters \in {"am", "pm"} THEN <<<<IF letters = "pm" THEN 1 ELSE 0, next>>>> ELSE <<>>

\* one directive of a strptime format matched at position i of s: the
\* alternatives of its pattern in their order, as <<value, next position>>
DirectiveMatches(s, i, directive) ==
    IF directive \in DOMAIN DirectiveRange THEN Ranged(s, i, DirectiveRange[directive])
    ELSE IF directive = "Y" THEN InRange(NumberAt(s, i, 4), 0, 9999, i + 4)
    ELSE IF directive = "p" /\ i + 1 <= Len(s) THEN Meridiem(Lower(SubSeq(s, i, i + 1)), i + 2)
    \* %b: a month name; the texts of the model hold none
    ELSE <<>>

\* the first position from i on that holds no whitespace
RECURSIVE SkipWs(_, _)
SkipWs(s, i) == IF i <= Len(s) /\ CharAt(s, i) \in Whitespace THEN SkipWs(s, i + 1) ELSE i

\* strptime: s matched against format from positions i and j on, the whole
\* of s consumed; the fields read, or Null.  A blank of the format matches
\* a run of whitespace, any other character itself; the alternatives of a
\* directive are tried in their order.
RECURSIVE MatchFormat(_, _, _, _, _)
RECURSIVE TryAlternatives(_, _, _, _, _, _)
MatchFormat(s, i, format, j, fields) ==
    IF j > Len(format) THEN (IF i > Len(s) THEN Some(fields) ELSE Null)
    ELSE IF CharAt(format, j) = "%"
    THEN TryAlternatives(s, format, j, fields, CharAt(format, j + 1),
                         DirectiveMatches(s, i, CharAt(format, j + 1)))
    ELSE IF CharAt(format, j) = " "
    THEN (IF i <= Len(s) /\ CharAt(s, i) \in Whitespace
          THEN MatchFormat(s, SkipWs(s, i), format, j + 1, fields) ELSE Null)
    ELSE IF i <= Len(s) /\ CharAt(s, i) = CharAt(format, j)
         THEN MatchFormat(s, i + 1, format, j + 1, fields) ELSE Null

TryAlternatives(s, format, j, fields, directive, alternatives) ==
    IF alternatives = <<>> THEN Null
    ELSE OrElse(MatchFormat(s, Head(alternatives)[2], format, j + 2,
                            [fields EXCEPT ![directive] = Head(alternatives)[1]]),
                TryAlternatives(s, format, j, fields, directive, Tail(alternatives)))

\* the fields of 1900-01-01 00:00:00, what strptime assumes where the
\* format names no field ("p" is 0 for AM, "I" the hour of a 12-hour clock)
NoFields == [Y |-> 1900, m |-> 1, d |-> 1, H |-> 0, M |-> 0, S |-> 0, I |-> 0, p |-> 0]

\* the date and the second of the day the fields name, if there is such a day
FieldsToDatetime(parsed, twelveHour) ==
    IF parsed = Null THEN Null
    ELSE IF Val(parsed).d > DaysInMonth(Val(parsed).Y, Val(parsed).m) \/ Val(parsed).S > 59
    THEN Null
    ELSE Some([year |-> Val(parsed).Y, month |-> Val(parsed).m, day |-> Val(parsed).d,
               seconds |-> (IF twelveHour THEN (Val(parsed).I % 12) + 12 * Val(parsed).p
                            ELSE Val(parsed).H) * 3600
                           + Val(parsed).M * 60 + Val(parsed).S])

strptime(s, format) ==
    FieldsToDatetime(MatchFormat(s, 1, format, 1, NoFields), Occurrences(format, "%I") # {})

\* a parsed date as a datetime64[ns], NaT outside its range
AsTimestamp(parsed) ==
    IF parsed = Null \/ Val(parsed).year < MinTimestampYear \/ Val(parsed).year > MaxTimestampYear
    THEN Null
    ELSE Timestamp(Val(parsed), Val(parsed).seconds)

\* pd.to_datetime(text, format=..., errors='coerce') on one cell
ToDatetime(cell, format) ==
    IF ~IsStr(cell) THEN Null ELSE AsTimestamp(strptime(StrOf(cell), format))


\* DataCleaner.is_null_string, lines 80-86
is_null_string(value) == Lower(value) = "none" \/ Lower(value) = "nan" \/ value = "<NA>"

\* the null_mask of DateCleaner (line 172) and TimeCleaner (line 337)
NullMask(cell) == IsNa(cell) \/ is_null_string(AsStr(cell))

\* DateCleaner, lines 200-219: a text of digits with an optional decimal part
\* is a count of days from 1899-12-30; a count pd.Timedelta cannot hold
\* fails and leaves the cell to the later stages
ExcelDate(s) ==
    LET whole == SplitFirst(s, ".")
        points == Occurrences(s, ".")
        frac == IF points = {} THEN "" ELSE SubSeq(s, MinOf(points) + 1, Len(s))
        isNumeric == Cardinality(points) <= 1 /\ whole # "" /\ AllDigits(whole) /\ AllDigits(frac)
        after59 == Number(whole) > 59 \/ (Number(whole) = 59 /\ Number(frac) > 0)
        days == IF after59 THEN Number(whole) - 1 ELSE Number(whole)
        seconds == (Number(frac) * SecondsPerDay) \div Number(PadRight("1", Len(frac) + 1))
    IN  IF ~isNumeric \/ days > MaxTimedeltaDays THEN Null
        ELSE Timestamp(CivilFromDays(ExcelBaseDays + days), seconds)

\* lines 178-186
source_formats ==
    [ tamara      |-> <<"%m/%d/%Y %H:%M", "%m/%d/%Y">>,
      payfort     |-> <<"%Y-%m-%d">>,
      metabase    |-> <<"%Y-%m-%d %H:%M:%S", "%m/%d/%Y">>,
      checkout_v1 |-> <<"%m/%d/%Y", "%Y-%m-%d %H:%M:%S">>,
      checkout_v2 |-> <<"%Y-%m-%d %H:%M:%S", "%m/%d/%Y">>,
      bank        |-> <<"%d-%m-%Y">>,
      portal      |-> <<"%d/%m/%Y">> ]

\* lines 254-268
date_formats ==
    << "%d/%m/%Y", "%m/%d/%Y", "%Y-%m-%d", "%d-%m-%Y", "%Y/%m/%d", "%d.%m.%Y", "%m.%d.%Y",
       "%d %b %Y", "%b %d %Y", "%Y%m%d",
       "%d/%m/%Y %H:%M:%S", "%m/%d/%Y %H:%M:%S", "%Y-%m-%d %H:%M:%S" >>

\* the first format of the list that reads the cell
RECURSIVE FirstParsed(_, _)
FirstParsed(cell, formats) ==
    IF formats = <<>> THEN Null
    ELSE OrElse(ToDatetime(cell, Head(formats)), FirstParsed(cell, Tail(formats)))

\* lines 295-313: pd.to_datetime without a format.  Of the texts no format
\* above reads, the model holds the ISO 8601 form with a T, which pandas
\* reads; the empty text and texts that hold no date give NaT.
InferDatetime(cell) == ToDatetime(cell, "%Y-%m-%dT%H:%M:%S")

\* a DateCleaner whose generic formats are tried before the formats of the
\* source
DateCell_GenericFirst(cell, source) ==
    IF NullMask(cell) THEN Null
    ELSE OrElse(ExcelDate(AsStr(cell)),
         OrElse(FirstParsed(cell, date_formats \o (IF source \in DOMAIN source_formats
                                                   THEN source_formats[source] ELSE <<>>)),
                InferDatetime(cell)))

\* DateCleaner.clean on one cell, lines 163-329: each stage works on the
\* cells the stages before left null
DateCell(cell, source) ==
    IF NullMask(cell) THEN Null
    ELSE OrElse(ExcelDate(AsStr(cell)),
         OrElse(FirstParsed(cell, (IF source \in DOMAIN source_formats
                                   THEN source_formats[source] ELSE <<>>) \o date_formats),
                InferDatetime(cell)))

DateCleaner(column, opts) ==
    Returned([i \in 1..Len(column) |-> DateCell(column[i], opts.source)])

\* TimeCleaner.clean, lines 331-410
time_formats == <<"%H:%M:%S", "%H:%M", "%I:%M:%S %p", "%I:%M %p">>

\* lines 352-358: the first pass
TimeOfTimestamp(timestamp) == IF timestamp = Null THEN Null ELSE TimeOfDay(timestamp[5])

TimeFirstPass(cell) == TimeOfTimestamp(ToDatetime(cell, "%H:%M:%S"))

\* lines 388-403: datetime.strptime(str(value).strip(), time_format).time()
TimeOfParsed(parsed) == IF parsed = Null THEN Null ELSE TimeOfDay(Val(parsed).seconds)

RECURSIVE FirstTimeParsed(_, _)
FirstTimeParsed(s, formats) ==
    IF formats = <<>> THEN Null
    ELSE OrElse(TimeOfParsed(strptime(s, Head(formats))), FirstTimeParsed(s, Tail(formats)))

\* lines 367-386 leave every cell as it is: datetime is the class
\* datetime.datetime (line 16), so datetime.time(hours, minutes, seconds)
\* raises TypeError, which line 385 catches
TimeCell(cell) ==
    IF NullMask(cell) THEN Null
    ELSE OrElse(TimeFirstPass(cell), FirstTimeParsed(StripWs(AsStr(cell)), time_formats))

\* line 367 reads problematic, which line 364 binds only if a cell outside
\* the null mask is still null after the first pass: UnboundLocalError
TimeCleaner(column, opts) ==
    LET valid == {i \in 1..Len(column) : ~NullMask(column[i])}
        still_null == {i \in valid : TimeFirstPass(column[i]) = Null}
    IN  IF valid = {} THEN Returned([i \in 1..Len(column) |-> Null])
        ELSE IF still_null = {} THEN Raised
        ELSE Returned([i \in 1..Len(column) |-> TimeCell(column[i])])

\* StringCleaner.clean, lines 412-441
\* lines 425-429: the pattern ^="(.*)"$ replaced by its group; the dot
\* matches no line break and $ also matches before a final line break
ExcelFormulaRemnant(s) ==
    LET tail == IF EndsWith(s, "\n") THEN "\n" ELSE ""
        body == SubSeq(s, 1, Len(s) - Len(tail))
        inner == SubSeq(body, 3, Len(body) - 1)
    IN  IF /\ Len(body) >= 3
           /\ StartsWith(body, "=\"") /\ EndsWith(body, "\"")
           /\ Occurrences(inner, "\n") = {}
        THEN inner \o tail
        ELSE s

\* line 437: \r\n, \n\r, \r and \n each become one blank
RECURSIVE LineBreaksToBlanks(_)
LineBreaksToBlanks(s) ==
    IF s = "" THEN ""
    ELSE IF StartsWith(s, "\r\n") \/ StartsWith(s, "\n\r")
    THEN " " \o LineBreaksToBlanks(SubSeq(s, 3, Len(s)))
    ELSE IF CharAt(s, 1) \in {"\r", "\n"}
    THEN " " \o LineBreaksToBlanks(SubSeq(s, 2, Len(s)))
    ELSE CharAt(s, 1) \o LineBreaksToBlanks(SubSeq(s, 2, Len(s)))

\* only a real null becomes null (line 418); every text stays a text
StringCell(cell) ==
    IF IsNa(cell) THEN Null
    ELSE Str(Without(LineBreaksToBlanks(StripWs(ExcelFormulaRemnant(AsStr(cell)))),
                     ControlChars))

StringCleaner(column, opts) == Returned([i \in 1..Len(column) |-> StringCell(column[i])])

\* TextCleaner.clean, lines 494-526
\* line 524: a run of whitespace becomes one blank
RECURSIVE CollapseWhitespace(_)
CollapseWhitespace(s) ==
    IF s = "" THEN ""
    ELSE IF CharAt(s, 1) \in Whitespace
    THEN " " \o CollapseWhitespace(SubSeq(s, SkipWs(s, 1), Len(s)))
    ELSE CharAt(s, 1) \o CollapseWhitespace(SubSeq(s, 2, Len(s)))

\* lines 518-521, in this order.  The replacements of lines 503-515 act on
\* mis-decoded Arabic letters, which no text of the model holds.
HtmlEntities(s) ==
    ReplaceAll(ReplaceAll(ReplaceAll(ReplaceAll(s, "&amp;", "&"), "&lt;", "<"), "&gt;", ">"),
               "&quot;", "\"")

TextCell(cell) ==
    LET str_cell == StringCell(cell)
    IN  IF IsNa(str_cell) THEN Null ELSE Str(CollapseWhitespace(HtmlEntities(StrOf(str_cell))))

TextCleaner(column, opts) == Returned([i \in 1..Len(column) |-> TextCell(column[i])])

\* BooleanCleaner.clean, lines 443-468
true_values == {"yes", "y", "true", "t", "1", "on", "completed", "success"}
false_values == {"no", "n", "false", "f", "0", "off", "failed", "failure"}

BooleanCell(cell) ==
    LET str_value == Lower(AsStr(cell))
    IN  IF str_value \in false_values THEN Boolean(FALSE)
        ELSE IF str_value \in true_values THEN Boolean(TRUE)
        ELSE Null

BooleanCleaner(column, opts) == Returned([i \in 1..Len(column) |-> BooleanCell(column[i])])

\* UuidCleaner.clean, lines 470-489: str(uuid.UUID(str(val).strip())), or
\* None where uuid.UUID raises ValueError
HexDigits == {CharAt(Digits, i) : i \in 1..Len(Digits)} \cup {"a", "b", "c", "d", "e", "f"}

\* str.strip('{}')
StripBraces(s) ==
    LET inner == {i \in 1..Len(s) : CharAt(s, i) \notin {"{", "}"}}
    IN  IF inner = {} THEN "" ELSE SubSeq(s, MinOf(inner), MaxOf(inner))

is_valid_uuid(val) ==
    LET hex == ReplaceAll(StripBraces(ReplaceAll(ReplaceAll(StripWs(val), "urn:", ""), "uuid:", "")),
                          "-", "")
        low == Lower(hex)
    IN  IF Len(hex) = 32 /\ \A i \in 1..32 : CharAt(low, i) \in HexDigits
        THEN Str(SubSeq(low, 1, 8) \o "-" \o SubSeq(low, 9, 12) \o "-" \o SubSeq(low, 13, 16)
                 \o "-" \o SubSeq(low, 17, 20) \o "-" \o SubSeq(low, 21, 32))
        ELSE Null

UuidCleaner(column, opts) ==
    Returned([i \in 1..Len(column) |-> is_valid_uuid(AsStr(column[i]))])

(***************************************************************************)
(* Specification SpecClean: one cleaner applied to one column, as          *)
(* DataFrameTransformer._transform_columns does for every configured       *)
(* column.  The files are read with dtype=str and na_filter=False (lines   *)
(* 536-537), so a cell of a CSV column is a text, the empty text           *)
(* included; a cell of an Excel sheet may be a real null.                  *)
(***************************************************************************)
MaxSeriesLen == 2

\* the keys of DATA_CLEANERS
DataTypes == {"integer", "float", "date", "time", "string", "text", "boolean", "uuid"}

\* the null tokens, in the spellings and cases files carry
NullTokenTexts == {"", "None", "NONE", "NaN", "nan", "NULL", "null", "<NA>", "<na>"}

\* texts of each kind of column: well-formed values in the notations the
\* cleaner reads in its several stages, and values it cannot read
OrdinaryTexts ==
    [ integer |-> {"42", "12.5", "abc"},
      float   |-> {"1,250.50", "-3", "abc"},
      date    |-> {"45322.5", "01/02/2024", "2024-01-31T10:00:00", "abc"},
      time    |-> {"10:30:00", "10:30 PM", "0.5", "abc"},
      string  |-> {" a\nb ", "=\"x\"", "abc"},
      text    |-> {"&amp;lt;", "a \t b", "abc"},
      boolean |-> {"Yes", "0", "abc"},
      uuid    |-> {"{550E8400-E29B-41D4-A716-446655440000}", "abc"} ]

CellsOf(type) == {Null} \cup {Str(s) : s \in NullTokenTexts \cup OrdinaryTexts[type]}

Sources == {"portal", "tamara"}

InitClean ==
    /\ phase = "column"
    /\ data_type \in DataTypes
    /\ series \in SeqsUpTo(CellsOf(data_type), MaxSeriesLen)
    /\ options \in {[source |-> s] : s \in Sources}
    /\ result = <<>>
    /\ include_reconciliation = FALSE
    /\ TablesIdle
    /\ GeneratorIdle
    /\ PipelineIdle

\* DATA_CLEANERS[py_type].clean(series, options), lines 99-106 and 688-703
ApplyCleaner(type, column, opts) ==
    CASE type = "integer" -> IntegerCleaner(column, opts)
      [] type = "float"   -> FloatCleaner(column, opts)
      [] type = "date"    -> DateCleaner(column, opts)
      [] type = "time"    -> TimeCleaner(column, opts)
      [] type = "string"  -> StringCleaner(column, opts)
      [] type = "text"    -> TextCleaner(column, opts)
      [] type = "boolean" -> BooleanCleaner(column, opts)
      [] type = "uuid"    -> UuidCleaner(column, opts)
      \* lines 690-693: a type without a cleaner is cleaned as a string
      [] OTHER            -> StringCleaner(column, opts)

Clean ==
    /\ phase = "column"
    /\ LET outcome == ApplyCleaner(data_type, series, options)
       IN  /\ phase' = IF outcome.raised THEN "raised" ELSE "cleaned"
           /\ result' = outcome.column
    /\ UNCHANGED <<data_type, series, options, include_reconciliation, table_vars, generator_vars,
                   pipeline_vars>>

NextClean == Clean

SpecClean == InitClean /\ [][NextClean]_vars

(***************************************************************************)
(* Properties of the cleaners (SpecClean).                                 *)
(***************************************************************************)
\* '', 'None', 'NaN', 'NULL', '<NA>' in any case
IsNullToken(s) == Lower(s) \in {"", "none", "nan", "null", "<na>"}

IsNullInput(cell) == IsNa(cell) \/ (IsStr(cell) /\ IsNullToken(StrOf(cell)))

\* C10: whatever the cleaner, a cell that is null or a null token is null in
\* the column the cleaner returns.
C10_NullPreserved ==
    phase = "cleaned" =>
        \A i \in 1..Len(series) : IsNullInput(series[i]) => IsNa(result[i])

\* what holds: the cleaners other than string and text return a column as
\* long as their input in which every such cell is null
NullPreservedByTypedCleaners ==
    (phase = "cleaned" /\ data_type \notin {"string", "text"}) =>
        /\ Len(result) = Len(series)
        /\ \A i \in 1..Len(series) : IsNullInput(series[i]) => IsNa(result[i])

\* the string and text cleaners return every null token as a text
NullTokensKeptByStringCleaners ==
    (phase = "cleaned" /\ data_type \in {"string", "text"}) =>
        \A i \in 1..Len(series) :
            /\ IsNa(series[i]) => IsNa(result[i])
            /\ (IsStr(series[i]) /\ IsNullToken(StrOf(series[i]))) => result[i] = series[i]

\* C11: whatever the cleaner and the column, clean returns a column as long
\* as its input and raises nothing.
C11_ReturnsWithoutRaising ==
    phase # "column" => (phase = "cleaned" /\ Len(result) = Len(series))

\* what holds: a cleaner that returns, returns a column as long as its
\* input, and only the integer and the time cleaner raise
LengthKeptWhenReturned ==
    /\ phase = "cleaned" => Len(result) = Len(series)
    /\ phase = "raised" => data_type \in {"integer", "time"}

(***************************************************************************)
(* DataFrameTransformer and the schema of the output file                  *)
(* (src/src/data_cleaner.py).  A DataFrame is its column labels in their   *)
(* order, the length of its index, and the cells and the dtype of every    *)
(* column.  column_config is the dictionary in its order, every entry the  *)
(* record of its "map_to", "original" and "py_type".                       *)
(***************************************************************************)
ColumnSet(frame) == {frame.columns[i] : i \in 1..Len(frame.columns)}

\* DataFrame.empty: no column or no row
IsEmpty(frame) == frame.columns = <<>> \/ frame.index = 0

\* pd.DataFrame(index=df.index)
EmptyFrame(index) == [columns |-> <<>>, index |-> index, data |-> <<>>, dtypes |-> <<>>]

\* df[name] = column: a new label is appended, a known one keeps its place
WithColumn(frame, name, column, dtype) ==
    [ columns |-> IF name \in ColumnSet(frame) THEN frame.columns
                  ELSE Append(frame.columns, name),
      index   |-> frame.index,
      data    |-> [c \in ColumnSet(frame) \cup {name} |->
                      IF c = name THEN column ELSE frame.data[c]],
      dtypes  |-> [c \in ColumnSet(frame) \cup {name} |->
                      IF c = name THEN dtype ELSE frame.dtypes[c]] ]

\* df[names]
SelectColumns(frame, names) ==
    [ columns |-> names,
      index   |-> frame.index,
      data    |-> [c \in {names[i] : i \in 1..Len(names)} |-> frame.data[c]],
      dtypes  |-> [c \in {names[i] : i \in 1..Len(names)} |-> frame.dtypes[c]] ]

\* a column holding one value in every row
Broadcast(index, cell) == [i \in 1..index |-> cell]

OriginalsOf(config) == {config[i].original : i \in 1..Len(config)}

\* _filter_columns, lines 601-638: the columns whose label is the original
\* header of a configured column; the order of the kept columns is that of
\* a Python set, here that of the frame (nothing later depends on it)
_filter_columns(frame, config) ==
    IF ColumnSet(frame) \cap OriginalsOf(config) = {} THEN EmptyFrame(frame.index)
    ELSE SelectColumns(frame, SelectSeq(frame.columns, LAMBDA c : c \in OriginalsOf(config)))

\* astype(str).str.replace(r'[\x00-\x1F\x7F]', ''), line 652, on one cell
WithoutNullBytes(cell) == Str(Without(AsStr(cell), ControlChars))

\* _remove_null_bytes, lines 640-656
_remove_null_bytes(frame) ==
    IF IsEmpty(frame) THEN frame
    ELSE [frame EXCEPT !.data = [c \in ColumnSet(frame) |->
             IF frame.dtypes[c] = "object"
             THEN [i \in 1..frame.index |-> WithoutNullBytes(frame.data[c][i])]
             ELSE frame.data[c]]]

\* the dtype of the column a cleaner returns
CleanedDtype(py_type) ==
    CASE py_type = "integer" -> "Int64"
      [] py_type = "float"   -> "Float64"
      [] py_type = "date"    -> "datetime64[ns]"
      [] py_type = "boolean" -> "boolean"
      [] OTHER               -> "object"

\* the column of a cleaner that raised left out of the result
Transformed_FailedDropped(state, specs, original_series, outcome) ==
    IF outcome.raised
    THEN [state EXCEPT !.failed_columns = Append(state.failed_columns, specs.original)]
    ELSE [state EXCEPT !.result_df = WithColumn(state.result_df, specs.map_to, outcome.column,
                                                "object")]

\* lines 702-720 for one column: the cleaned column under its mapped name,
\* or, the cleaner having raised, the column of the frame as it is and its
\* original header among the failed columns
Transformed(state, specs, original_series, outcome) ==
    IF outcome.raised
    THEN [ result_df |-> WithColumn(state.result_df, specs.map_to, original_series, "object"),
           failed_columns |-> Append(state.failed_columns, specs.original) ]
    ELSE [ result_df |-> WithColumn(state.result_df, specs.map_to, outcome.column,
                                    CleanedDtype(specs.py_type)),
           failed_columns |-> state.failed_columns ]

\* the loop of _transform_columns, lines 674-720, from entry i on: a
\* configured column whose original header is not in the frame is skipped
RECURSIVE TransformFrom(_, _, _, _, _)
TransformFrom(frame, config, source, i, state) ==
    IF i > Len(config) THEN state
    ELSE IF config[i].original \notin ColumnSet(frame)
    THEN TransformFrom(frame, config, source, i + 1, state)
    ELSE TransformFrom(frame, config, source, i + 1,
             Transformed(state, config[i], frame.data[config[i].original],
                 ApplyCleaner(config[i].py_type, frame.data[config[i].original],
                              [source |-> source])))

\* _transform_columns, lines 658-730: an empty frame is returned as it is
_transform_columns(frame, config, source) ==
    IF IsEmpty(frame) THEN [result_df |-> frame, failed_columns |-> <<>>]
    ELSE TransformFrom(frame, config, source, 1,
             [result_df |-> EmptyFrame(frame.index), failed_columns |-> <<>>])

\* pd.Timestamp.now(): the moment of the run
ProcessedAt == <<"datetime64", 2024, 1, 1, 0>>

\* _add_metadata, lines 732-743
_add_metadata(frame, source) ==
    WithColumn(WithColumn(frame, "data_source", Broadcast(frame.index, Str(source)), "object"),
               "processed_at", Broadcast(frame.index, ProcessedAt), "datetime64[ns]")

WithMetadata(state, source) ==
    [state EXCEPT !.result_df = _add_metadata(state.result_df, source)]

\* DataFrameTransformer.transform, lines 574-599: the frame it returns and
\* the failed_columns it leaves
transform(frame, config, source) ==
    WithMetadata(_transform_columns(_remove_null_bytes(_filter_columns(frame, config)),
                                    config, source), source)

\* SchemaManager.create_target_schema, lines 989-1025: the fields of the
\* schema as <<name, arrow type>>
ArrowType(py_type) ==
    CASE py_type = "integer" -> "int64"
      [] py_type = "float"   -> "float64"
      [] py_type = "date"    -> "date32"
      [] py_type = "time"    -> "time32"
      [] py_type = "boolean" -> "bool"
      [] OTHER               -> "string"

create_target_schema(config) ==
    [i \in 1..Len(config) |-> <<config[i].map_to, ArrowType(config[i].py_type)>>]
    \o << <<"data_source", "string">>, <<"processed_at", "timestamp">> >>

target_column_names(schema) == [i \in 1..Len(schema) |-> schema[i][1]]

\* the dtype of a column _ensure_schema_conformance adds, lines 1388-1397
NullDtype(arrow_type) ==
    CASE arrow_type = "int64"   -> "Int64"
      [] arrow_type = "float64" -> "Float64"
      [] arrow_type = "bool"    -> "boolean"
      [] arrow_type \in {"date32", "time32", "timestamp"} -> "datetime64[ns]"
      [] OTHER                  -> "string"

\* the column as it is if the conversion raised (lines 1427-1428), else
\* the converted column and its dtype
Converted(frame, name, outcome, dtype) ==
    IF outcome.raised THEN frame ELSE WithColumn(frame, name, outcome.column, dtype)

\* pd.to_numeric(errors='coerce').astype(Float64), line 1422, on one cell
AsFloat64(numeric) == IF numeric = Null THEN Null ELSE Float64(Val(numeric))

\* astype(BooleanDtype) of an object column, line 1424: a text is no
\* bool-like value
AsBooleanColumn(column) ==
    IF \E i \in 1..Len(column) : ~IsNa(column[i]) THEN Raised ELSE Returned(column)

\* lines 1400-1428: the nullable dtype of a column the frame holds
EnsureDtype(frame, name, arrow_type, column, dtype) ==
    CASE arrow_type = "int64" /\ dtype # "Int64" ->
             Converted(frame, name, IntegerCleaner(column, <<>>), "Int64")
      [] arrow_type = "float64" /\ dtype # "Float64" ->
             WithColumn(frame, name,
                        [i \in 1..Len(column) |-> AsFloat64(to_numeric(column[i]))], "Float64")
      [] arrow_type = "bool" /\ dtype # "boolean" ->
             Converted(frame, name, AsBooleanColumn(column), "boolean")
      [] arrow_type = "date32" /\ dtype # "datetime64[ns]" ->
             WithColumn(frame, name,
                        [i \in 1..Len(column) |-> InferDatetime(column[i])], "datetime64[ns]")
      [] arrow_type = "string" /\ dtype # "string" ->
             WithColumn(frame, name, column, "string")
      [] OTHER -> frame

\* the loop of _ensure_schema_conformance, lines 1370-1428, from field i
\* on; current_columns are the columns of the frame handed in
RECURSIVE ConformFrom(_, _, _, _, _)
ConformFrom(frame, schema, source, current_columns, i) ==
    IF i > Len(schema) THEN frame
    ELSE IF schema[i][1] \in {"data_source", "processed_at"}
    THEN ConformFrom(
             IF schema[i][1] \in current_columns THEN frame
             ELSE IF schema[i][1] = "data_source"
                  THEN WithColumn(frame, "data_source",
                                  Broadcast(frame.index, Str(source)), "object")
                  ELSE WithColumn(frame, "processed_at",
                                  Broadcast(frame.index, ProcessedAt), "datetime64[ns]"),
             schema, source, current_columns, i + 1)
    ELSE IF schema[i][1] \notin current_columns
    THEN ConformFrom(WithColumn(frame, schema[i][1], Broadcast(frame.index, Null),
                                NullDtype(schema[i][2])),
                     schema, source, current_columns, i + 1)
    ELSE ConformFrom(EnsureDtype(frame, schema[i][1], schema[i][2],
                                 frame.data[schema[i][1]], frame.dtypes[schema[i][1]]),
                     schema, source, current_columns, i + 1)

\* the frame left in the order its columns were added
Reordered_AsAdded(frame, column_names) == frame

\* _ensure_schema_conformance, lines 1359-1437: the columns of the schema
\* in its order, the others dropped
Reordered(frame, column_names) ==
    SelectColumns(frame, SelectSeq(column_names, LAMBDA name : name \in ColumnSet(frame)))

_ensure_schema_conformance(frame, schema, column_names, source) ==
    Reordered(ConformFrom(frame, schema, source, ColumnSet(frame), 1), column_names)

(***************************************************************************)
(* Specification SpecTransform: one chunk of a file through                *)
(* DataFrameTransformer.transform and then through                         *)
(* FileProcessor._ensure_schema_conformance, as the batch loop of          *)
(* _process_file_in_batches calls them (lines 1274 and 1279).              *)
(***************************************************************************)
MaxConfigColumns == 2
MaxChunkRows == 1

\* columns of the generated configuration: an integer, a time and a
\* string column
ConfigEntries ==
    { [map_to |-> "order_id", original |-> "Reference", py_type |-> "integer"],
      [map_to |-> "time", original |-> "time", py_type |-> "time"],
      [map_to |-> "bank_name", original |-> "Bank Name", py_type |-> "string"] }

\* column_config: configured columns under distinct names
Configs ==
    {c \in SeqsUpTo(ConfigEntries, MaxConfigColumns) :
        /\ c # <<>>
        /\ \A i, j \in 1..Len(c) : i # j => c[i] # c[j]}

\* the headers a file may carry: the configured ones and one that no
\* configuration knows
FileHeaders == <<"Reference", "time", "Bank Name", "Notes">>

\* the cells of a column as the readers deliver them: texts, a real null
\* where an Excel sheet has an empty cell
FileCells ==
    [h \in {FileHeaders[i] : i \in 1..Len(FileHeaders)} |->
        CASE h = "Reference" -> {Str("42"), Str("12.5\t")}
          [] h = "time"      -> {Str("10:30:00"), Str("abc")}
          [] h = "Bank Name" -> {Null, Str(" a\nb ")}
          [] OTHER           -> {Str("x")}]

\* the chunks of n rows under the headers H
ColumnsOf(H, n) ==
    {d \in [H -> UNION {[1..n -> FileCells[h]] : h \in H}] :
        \A h \in H : d[h] \in [1..n -> FileCells[h]]}

ChunksOf(H, n) ==
    {[columns |-> SelectSeq(FileHeaders, LAMBDA h : h \in H),
      index   |-> n,
      data    |-> d,
      dtypes  |-> [h \in H |-> "object"]] : d \in ColumnsOf(H, n)}

Chunks ==
    UNION {ChunksOf(H, n) : H \in SUBSET {FileHeaders[i] : i \in 1..Len(FileHeaders)},
                            n \in 0..MaxChunkRows}

InitTransform ==
    /\ phase = "chunk"
    /\ column_config \in Configs
    /\ chunk \in Chunks
    /\ options = [source |-> "checkout_v1"]
    /\ result_df = <<>>
    /\ failed_columns = <<>>
    /\ conformed_chunk = <<>>
    /\ ProcessorIdle
    /\ ServiceIdle
    /\ RegistryIdle
    /\ data_type = ""
    /\ series = <<>>
    /\ result = <<>>
    /\ include_reconciliation = FALSE
    /\ TablesIdle
    /\ GeneratorIdle

\* clean_dataframe(chunk, column_config, self.source), line 1274
Transform ==
    /\ phase = "chunk"
    /\ LET transformed == transform(chunk, column_config, options.source)
       IN  /\ result_df' = transformed.result_df
           /\ failed_columns' = transformed.failed_columns
    /\ phase' = "transformed"
    /\ UNCHANGED <<column_config, chunk, conformed_chunk, data_type, series, options, result,
                   include_reconciliation, table_vars, generator_vars, processor_vars, service_vars,
                   registry_vars>>

Conformed(frame, schema, source) ==
    _ensure_schema_conformance(frame, schema, target_column_names(schema), source)

\* self._ensure_schema_conformance(cleaned_chunk, target_schema,
\* target_column_names), line 1279
EnsureSchemaConformance ==
    /\ phase = "transformed"
    /\ conformed_chunk' =
           Conformed(result_df, create_target_schema(column_config), options.source)
    /\ phase' = "conformed"
    /\ UNCHANGED <<column_config, chunk, result_df, failed_columns, data_type, series, options,
                   result, include_reconciliation, table_vars, generator_vars, processor_vars, service_vars,
                   registry_vars>>

NextTransform == Transform \/ EnsureSchemaConformance

SpecTransform == InitTransform /\ [][NextTransform]_vars

(***************************************************************************)
(* Properties of transform and of the schema conformance (SpecTransform).  *)
(***************************************************************************)
\* the configured column is in the chunk
InChunk(specs) == specs.original \in ColumnSet(chunk)

\* the column _transform_columns hands to the cleaner
CleanerInput(specs) ==
    [i \in 1..chunk.index |-> WithoutNullBytes(chunk.data[specs.original][i])]

CleanerOutcome(specs) == ApplyCleaner(specs.py_type, CleanerInput(specs), options)

\* the original headers of the columns whose cleaner raises, in the order
\* of the configuration
RaisingColumns ==
    LET raising == SelectSeq(column_config,
                             LAMBDA specs : InChunk(specs) /\ CleanerOutcome(specs).raised)
    IN  [i \in 1..Len(raising) |-> raising[i].original]

\* the frame holds the column under the name with these cells
Holds(frame, name, column) == name \in ColumnSet(frame) /\ frame.data[name] = column

\* C12: of a chunk that has a row and a configured column, transform
\* returns as many rows as the chunk has; a column whose cleaner raises is
\* there under its canonical name with the raw values of the chunk,
\* failed_columns lists exactly those columns, and every other column is
\* there as its cleaner returns it.
C12_FailedColumnsKeptRaw ==
    (phase = "transformed" /\ ~IsEmpty(_filter_columns(chunk, column_config))) =>
        /\ result_df.index = chunk.index
        /\ failed_columns = RaisingColumns
        /\ \A i \in 1..Len(column_config) :
               InChunk(column_config[i]) =>
                   Holds(result_df, column_config[i].map_to,
                         IF CleanerOutcome(column_config[i]).raised
                         THEN chunk.data[column_config[i].original]
                         ELSE CleanerOutcome(column_config[i]).column)

\* C12, as the code has it: a column whose cleaner raises is kept with
\* the values _remove_null_bytes left: texts without control characters, a
\* real null as the text 'nan'.
C12_FailedColumnsKeptStripped ==
    (phase = "transformed" /\ ~IsEmpty(_filter_columns(chunk, column_config))) =>
        /\ result_df.index = chunk.index
        /\ failed_columns = RaisingColumns
        /\ \A i \in 1..Len(column_config) :
               InChunk(column_config[i]) =>
                   Holds(result_df, column_config[i].map_to,
                         IF CleanerOutcome(column_config[i]).raised
                         THEN CleanerInput(column_config[i])
                         ELSE CleanerOutcome(column_config[i]).column)

\* a chunk whose integer column fails on a value with a control character
\* while its string column is cleaned
C12_Witness ==
    /\ phase = "transformed"
    /\ failed_columns = <<"Reference">>
    /\ chunk.data["Reference"] = <<Str("12.5\t")>>
    /\ Holds(result_df, "order_id", <<Str("12.5")>>)
    /\ Holds(result_df, "bank_name", <<Str("ab")>>)

\* a chunk without rows leaves transform under its original headers
EmptyChunkKeepsHeaders ==
    (phase = "transformed" /\ chunk.index = 0) =>
        /\ failed_columns = <<>>
        /\ \A i \in 1..Len(column_config) :
               InChunk(column_config[i]) => column_config[i].original \in ColumnSet(result_df)

\* the canonical names of the configuration in its order, then the
\* metadata columns
CanonicalColumns ==
    [i \in 1..Len(column_config) |-> column_config[i].map_to]
    \o <<"data_source", "processed_at">>

\* C13: after transform and the schema conformance the columns of a chunk
\* are the canonical names of the configuration in its order, then
\* data_source and processed_at, whichever configured headers the chunk
\* lacks and whichever others it carries; a column the chunk lacks is
\* there with a null in every row.
C13_ExactColumnList ==
    phase = "conformed" =>
        /\ conformed_chunk.columns = CanonicalColumns
        /\ conformed_chunk.index = chunk.index
        /\ \A i \in 1..Len(column_config) :
               ~InChunk(column_config[i]) =>
                   conformed_chunk.data[column_config[i].map_to]
                       = Broadcast(chunk.index, Null)

\* a chunk with rows that lacks a configured header, has another and
\* carries a header no configuration knows
C13_Witness ==
    /\ phase = "conformed"
    /\ chunk.index > 0
    /\ "Notes" \in ColumnSet(chunk)
    /\ \E i, j \in 1..Len(column_config) :
           ~InChunk(column_config[i]) /\ InChunk(column_config[j])

(***************************************************************************)
(* Specification SpecReclean: a cleaner applied to a column and then to    *)
(* the column it returned.  The cleaners applied again are those that      *)
(* return a column of texts (string, text, uuid), whose output is a        *)
(* column of the kind the cleaners read.                                   *)
(***************************************************************************)
TextReturningTypes == {"string", "text", "uuid"}

\* texts of each kind of column, the Excel formula remnant behind a blank
\* and the twice escaped entity among them
RecleanTexts ==
    [ string |-> {"", "None", " a\nb ", " =\"x\"", "abc"},
      text   |-> {"", "None", "&amp;amp;", "&amp;lt;", "a \t b"},
      uuid   |-> {"", "None", "{550E8400-E29B-41D4-A716-446655440000}", "abc"} ]

InitReclean ==
    /\ phase = "column"
    /\ data_type \in TextReturningTypes
    /\ series \in SeqsUpTo({Null} \cup {Str(s) : s \in RecleanTexts[data_type]}, MaxSeriesLen)
    /\ options \in {[source |-> s] : s \in Sources}
    /\ result = <<>>
    /\ include_reconciliation = FALSE
    /\ TablesIdle
    /\ GeneratorIdle
    /\ PipelineIdle

\* clean(clean(x)): the cleaner applied to the column it returned
Reclean ==
    /\ phase = "cleaned"
    /\ data_type \in TextReturningTypes
    /\ LET outcome == ApplyCleaner(data_type, result, options)
       IN  /\ phase' = IF outcome.raised THEN "raised" ELSE "recleaned"
           /\ result' = outcome.column
    /\ series' = result
    /\ UNCHANGED <<data_type, options, include_reconciliation, table_vars, generator_vars,
                   pipeline_vars>>

NextReclean == Clean \/ Reclean

SpecReclean == InitReclean /\ [][NextReclean]_vars

\* C14: a cleaner applied to the column it returned returns that column.
C14_CleanIdempotent == phase = "recleaned" => result = series

\* what holds: the uuid cleaner returns its own output
UuidCleanIdempotent ==
    (phase = "recleaned" /\ data_type = "uuid") => result = series

(***************************************************************************)
(* Specification SpecBatches: FileProcessor.process_file on one file, the  *)
(* loop of _process_file_in_batches batch by batch.  The reader yields     *)
(* the chunks of the file, all under the headers of the file; the phase    *)
(* is "processing" while the Parquet writer is open, "finished" once the   *)
(* file is written and "failed" once process_file has raised, the output   *)
(* file removed (lines 1328-1348).                                         *)
(***************************************************************************)
MaxBatches == 2

InitBatches ==
    /\ phase = "processing"
    /\ column_config \in Configs
    /\ file_headers \in (SUBSET {FileHeaders[i] : i \in 1..Len(FileHeaders)}) \ {{}}
    /\ options = [source |-> "checkout_v1"]
    \* process_file, lines 1218-1219
    /\ total_rows = 0
    /\ error_count = 0
    /\ batch_number = 0
    /\ written = <<>>
    /\ chunk = <<>>
    /\ result_df = <<>>
    /\ failed_columns = <<>>
    /\ conformed_chunk = <<>>
    /\ RegistryIdle
    /\ ServiceIdle
    /\ data_type = ""
    /\ series = <<>>
    /\ result = <<>>
    /\ include_reconciliation = FALSE
    /\ TablesIdle
    /\ GeneratorIdle

\* pa.Table.from_pandas(conformed_chunk, schema=target_schema), line 1306:
\* a column of a type other than string that holds a text does not convert
Inconvertible(frame, schema) ==
    \E i \in 1..Len(schema) :
        /\ schema[i][2] \in {"int64", "float64", "bool", "date32", "time32"}
        /\ \E r \in 1..frame.index : IsStr(frame.data[schema[i][1]][r])

\* lines 1274-1314 of one batch: the frames of the batch and whether the
\* batch raised; a table that converts may still fail to be written
Batch(frame, transformed, conformed, schema, write_fails) ==
    [ chunk           |-> frame,
      result_df       |-> transformed.result_df,
      failed_columns  |-> transformed.failed_columns,
      conformed_chunk |-> conformed,
      raised          |-> write_fails \/ Inconvertible(conformed, schema) ]

Conformance(frame, transformed, schema, source, write_fails) ==
    Batch(frame, transformed, Conformed(transformed.result_df, schema, source), schema,
          write_fails)

\* the body of the batch loop, lines 1267-1324, on the state of the
\* processor: the rows are counted before the table is written (line
\* 1300); the error that makes error_count 1 is raised again and leaves
\* the loop (lines 1323-1324)
Processed(batch) ==
    /\ chunk' = batch.chunk
    /\ result_df' = batch.result_df
    /\ failed_columns' = batch.failed_columns
    /\ conformed_chunk' = batch.conformed_chunk
    /\ batch_number' = batch_number + 1
    /\ total_rows' = total_rows + batch.conformed_chunk.index
    /\ error_count' = IF batch.raised THEN error_count + 1 ELSE error_count
    /\ written' = Append(written, IF batch.raised THEN 0 ELSE batch.conformed_chunk.index)
    /\ phase' = IF batch.raised /\ error_count + 1 = 1 THEN "failed" ELSE "processing"

ProcessBatch ==
    /\ phase = "processing"
    /\ batch_number < MaxBatches
    /\ \E n \in 1..MaxChunkRows : \E frame \in ChunksOf(file_headers, n) :
       \E write_fails \in BOOLEAN :
           Processed(Conformance(frame, transform(frame, column_config, options.source),
                                 create_target_schema(column_config), options.source,
                                 write_fails))
    /\ UNCHANGED <<column_config, file_headers, data_type, series, options, result,
                   include_reconciliation, table_vars, generator_vars, registry_vars,
                   service_vars>>

\* the reader is exhausted: the loop ends and the writer is closed (lines
\* 1326 and 1350-1356)
FinishFile ==
    /\ phase = "processing"
    /\ phase' = "finished"
    /\ UNCHANGED <<include_reconciliation, table_vars, generator_vars, cleaner_vars,
                   pipeline_vars>>

NextBatches == ProcessBatch \/ FinishFile

SpecBatches == InitBatches /\ [][NextBatches]_vars

(***************************************************************************)
(* Properties of the batch loop (SpecBatches).                             *)
(***************************************************************************)
\* the file carries none of the configured original headers
NoConfiguredHeader == file_headers \cap OriginalsOf(column_config) = {}

\* C15: once a batch of a file that carries none of the configured headers
\* has been processed, the file has failed and no row of a batch has been
\* handed to the writer.
C15_NoConfiguredHeaderIsFatal ==
    (batch_number > 0 /\ NoConfiguredHeader) =>
        /\ phase = "failed"
        /\ \A i \in 1..Len(written) : written[i] = 0

\* what the code does: such a batch raises nothing in transform or in the
\* schema conformance, and what is written for it is a row of nulls under
\* every configured column for every row of the chunk
NoConfiguredHeaderWritesNulls ==
    (batch_number > 0 /\ NoConfiguredHeader) =>
        /\ conformed_chunk.columns = CanonicalColumns
        /\ conformed_chunk.index = chunk.index
        /\ \A i \in 1..Len(column_config) :
               conformed_chunk.data[column_config[i].map_to] = Broadcast(chunk.index, Null)
        /\ (error_count = 0 => written[batch_number] = chunk.index)

\* C16: an error in the first batch aborts the file; an error in a later
\* batch is counted and leaves the file in processing.
C16_OnlyFirstBatchAborts ==
    error_count > 0 => (phase = "failed" <=> batch_number = 1)

\* what the code does: the first batch that raises, whichever it is,
\* aborts the file, so error_count never exceeds 1
FirstErrorAborts ==
    /\ error_count \in {0, 1}
    /\ error_count = 1 <=> phase = "failed"
    /\ phase = "failed" => written[batch_number] = 0

(***************************************************************************)
(* generate_config.py: the configuration generator.  It reads the files of *)
(* every source, gives every header a canonical name and a py_type, and    *)
(* merges the files of a source into one registry of columns.              *)
(***************************************************************************)
\* STD_FIELD_PATTERNS, lines 67-78: the patterns that are literals joined by
\* ".*", each as the list of its literals.  No function of the module reads
\* the table.
STD_FIELD_PATTERNS ==
    << <<(<<"order", "id">>), "order_id">>,
       <<(<<"payment", "online", "transaction", "id">>), "payment_online_transaction_id">>,
       <<(<<"reference", "id">>), "reference_id">>,
       <<(<<"response", "code">>), "response_code">> >>

\* SOURCE_MAPPINGS, lines 83-172: the dictionaries of three of its sources
SOURCE_MAPPINGS ==
    [bank |->
        << <<"RRN", "rrn">>,
           <<"Authorization Code", "authorization_code">>,
           <<"Transaction Amount", "transaction_amount">>,
           <<"Transaction Date", "transaction_date">>,
           <<"Payment Status", "status">>,
           <<"Payment ID", "payment_online_transaction_id">>,
           <<"Card Type", "card_type">>,
           <<"Card Number", "masked_card">>,
           <<"Transaction Type", "transaction_type">>,
           <<"Posting Date", "posting_date">> >>,
     metabase |->
        << <<"RRN", "rrn">>,
           <<"Auth Code", "authorization_code">>,
           <<"Transaction Amount", "transaction_amount">>,
           <<"Transaction Date", "transaction_date">>,
           <<"Payment Status", "status">>,
           <<"payment_online_transaction_id", "gateway_order_id">>,
           <<"Response Code", "response_code">>,
           <<"Order ID", "portal_order_id">> >>,
     checkout_v1 |->
        << <<"Acquirer Reference ID", "rrn">>,
           <<"Auth Code", "authorization_code">>,
           <<"Amount", "transaction_amount">>,
           <<"Action Date UTC", "transaction_date">>,
           <<"Action Type", "status">>,
           <<"Payment ID", "payment_online_transaction_id">>,
           <<"Response Code", "response_code">>,
           <<"Reference", "order_id">> >>]

\* the dictionary of a source, empty for a source SOURCE_MAPPINGS lacks
MappingOf(source) ==
    IF source \in DOMAIN SOURCE_MAPPINGS THEN SOURCE_MAPPINGS[source] ELSE <<>>

\* col in SOURCE_MAPPINGS[source]
InMapping(source, col) ==
    \E i \in 1..Len(MappingOf(source)) : MappingOf(source)[i][1] = col

\* SOURCE_MAPPINGS[source][col]
MappedBy(source, col) ==
    LET mapping == MappingOf(source)
    IN  mapping[CHOOSE i \in 1..Len(mapping) : mapping[i][1] = col][2]

\* \w of a lowercased ASCII text
IsWordChar(c) == Occurrences(LowerLetters \o Digits \o "_", c) # {}

\* re.sub(r"__+", "_", re.sub(r"[^\w]+", "_", s)): every run of characters
\* that are no word characters, or are underscores, becomes one underscore
RECURSIVE Underscored(_)
Underscored(s) ==
    IF s = "" THEN ""
    ELSE IF IsWordChar(CharAt(s, 1)) /\ CharAt(s, 1) # "_"
         THEN CharAt(s, 1) \o Underscored(SubSeq(s, 2, Len(s)))
    ELSE IF Len(s) > 1 /\ ~(IsWordChar(CharAt(s, 2)) /\ CharAt(s, 2) # "_")
         THEN Underscored(SubSeq(s, 2, Len(s)))
    ELSE "_" \o Underscored(SubSeq(s, 2, Len(s)))

\* str.strip("_")
StripUnderscores(s) ==
    LET kept == {i \in 1..Len(s) : CharAt(s, i) # "_"}
    IN  IF kept = {} THEN "" ELSE SubSeq(s, MinOf(kept), MaxOf(kept))

\* snake, lines 234-238
snake(name) == StripUnderscores(Underscored(Lower(StripWs(name))))

\* map_standard_name, lines 240-254
map_standard_name(col, source) ==
    IF InMapping(source, col) THEN MappedBy(source, col)
    ELSE IF snake(col) = "id" THEN "source_id"
    ELSE snake(col)

\* FIELD_TYPE_OVERRIDES, lines 175-193
FIELD_TYPE_OVERRIDES ==
    << <<"order_id", "integer">>, <<"portal_order_id", "integer">>,
       <<"gateway_order_id", "integer">>, <<"rrn", "string">>, <<"amount", "float">>,
       <<"transaction_amount", "float">>, <<"total", "float">>, <<"fees", "float">>,
       <<"cash", "float">>, <<"wallet_paid_amount", "float">>, <<"chef_total", "float">>,
       <<"commission_amount", "float">>, <<"transaction_date", "date">>,
       <<"action_date_utc_1", "date">>, <<"txn_created_at_gmt_03_00", "date">>,
       <<"posting_date", "date">>, <<"time", "time">> >>

HasOverride(name) ==
    \E i \in 1..Len(FIELD_TYPE_OVERRIDES) : FIELD_TYPE_OVERRIDES[i][1] = name

OverrideOf(name) ==
    FIELD_TYPE_OVERRIDES[CHOOSE i \in 1..Len(FIELD_TYPE_OVERRIDES) :
                             FIELD_TYPE_OVERRIDES[i][1] = name][2]

\* DATE_COLUMNS, lines 51-55
DATE_COLUMNS ==
    {"transaction_date", "action_date_utc_1", "txn_created_at_gmt_03_00", "posting_date",
     "order_created_at_gmt_03_00", "delivery_date", "settlement_date", "created_at",
     "updated_at", "payment_date", "processing_date", "authorization_date", "capture_date"}

\* any(term in text for term in terms)
HasAny(text, terms) == \E term \in terms : Contains(text, term)

\* line 263
DateByName(name) == HasAny(name, DATE_COLUMNS) \/ Contains(name, "date")

\* line 272
CardTerms == {"card", "cc", "bin", "pan", "masked"}

\* line 282
AmountTerms == {"amount", "total", "fees", "cash"}

\* line 278: the value holds an asterisk and a digit
LooksMasked(text) ==
    /\ Contains(text, "*")
    /\ \E i \in 1..Len(text) : IsDigit(CharAt(text, i))

\* pd.read_csv(..., dtype=str, na_filter=False), lines 305-312: every column
\* of the frame is of dtype object and holds texts, the empty text included
ReadCsvDtype == "object"

\* pandas.api.types, as imported by the module
is_integer_dtype(dtype) == dtype \in {"int64", "Int64"}
is_float_dtype(dtype) == dtype = "float64"
is_datetime64_any_dtype(dtype) == dtype = "datetime64"

\* YYYY-MM-DD with a month and a day of the calendar
IsIsoDate(text) ==
    /\ Len(text) = 10
    /\ CharAt(text, 5) = "-" /\ CharAt(text, 8) = "-"
    /\ AllDigits(SubSeq(text, 1, 4)) /\ AllDigits(SubSeq(text, 6, 7))
    /\ AllDigits(SubSeq(text, 9, 10))
    /\ Number(SubSeq(text, 1, 4)) >= 1
    /\ Number(SubSeq(text, 6, 7)) \in 1..12
    /\ Number(SubSeq(text, 9, 10)) \in
           1..DaysInMonth(Number(SubSeq(text, 1, 4)), Number(SubSeq(text, 6, 7)))

\* digits, a point, digits
IsDecimalText(text) ==
    \E i \in 2..(Len(text) - 1) :
        /\ CharAt(text, i) = "."
        /\ AllDigits(SubSeq(text, 1, i - 1))
        /\ AllDigits(SubSeq(text, i + 1, Len(text)))

\* a whole number of one or two digits: dateutil reads one above 31 as a
\* year and one up to 28 as a day of the current month
IsShortNumber(text) ==
    /\ Len(text) \in 1..2
    /\ AllDigits(text)
    /\ (Number(text) \in 1..28 \/ Number(text) > 31)

\* _looks_like_date, lines 295-299: date_parse(str(val), fuzzy=False) returns.
\* The texts of the model are dates in ISO form, short whole numbers,
\* decimals, and texts no date can be read from; what dateutil makes of a
\* decimal is left open (decimal_parses).
_looks_like_date(text, decimal_parses) ==
    \/ IsIsoDate(text)
    \/ IsShortNumber(text)
    \/ (IsDecimalText(text) /\ decimal_parses)

\* line 291: the size of the sample of the date vote
MaxSampled == 6

\* line 292, over a sample that holds every value of the column (the column
\* has at most MaxSampled values, so s.sample returns all of them, reordered)
Parsed(samples, decimal_parses) ==
    Cardinality({i \in 1..Len(samples) : _looks_like_date(AsStr(samples[i]), decimal_parses)})

\* lines 291-293
DateVote(samples, decimal_parses) ==
    IF Parsed(samples, decimal_parses) >= Len(samples) \div 2 THEN "date" ELSE "string"

\* guess_py_type, lines 256-293, of a column of texts without nulls: values
\* are the values of the column, name its header as read, dtype its dtype
guess_py_type(values, name, dtype, mapped, decimal_parses) ==
    IF HasOverride(mapped) THEN OverrideOf(mapped)
    ELSE IF DateByName(mapped) THEN "date"
    ELSE IF values = <<>> THEN "string"
    ELSE IF HasAny(Lower(name), CardTerms) THEN "string"
    ELSE IF LooksMasked(AsStr(values[1])) THEN "string"
    ELSE IF HasAny(Lower(name), AmountTerms) THEN "float"
    ELSE IF is_integer_dtype(dtype) THEN "integer"
    ELSE IF is_float_dtype(dtype) THEN "float"
    ELSE IF is_datetime64_any_dtype(dtype) THEN "date"
    ELSE DateVote(values, decimal_parses)

(***************************************************************************)
(* SpecAnalyse: analyse_csv on one column of a file of a source.  The      *)
(* header gets its canonical name (lines 321-353), then the column gets    *)
(* its py_type (lines 340 and 367).                                        *)
(***************************************************************************)
AnalysedSources == {"bank", "metabase", "checkout_v1"}

AnalysedHeaders ==
    {"Order Identifier", "Order Id", "Order ID", "Reference", "Response Code", "ID",
     " Customer  Name ", "Notes", "Card Holder", "Net Amount", "Date & Time", "RRN",
     "Paid (on-line)"}

\* the values of the date vote: one that parses and one that does not
VoteTexts == {"2024-01-31", "hello"}

\* the columns a file is read into: every column of up to MaxSampled values
\* that parse or do not, and columns of whole numbers, of decimals, of a
\* masked card number
AnalysedColumns ==
    UNION {[1..n -> {Str(t) : t \in VoteTexts}] : n \in 0..MaxSampled}
    \cup {<<Str("42")>>, <<Str("42"), Str("7")>>,
          <<Str("42"), Str("7"), Str("15"), Str("8")>>,
          <<Str("12.5")>>, <<Str("12.5"), Str("3.25"), Str("0.75")>>,
          <<Str("12.5"), Str("3.25"), Str("0.75"), Str("1.5")>>,
          <<Str("4111****1111"), Str("hello"), Str("hello"), Str("hello")>>,
          <<Str("hello"), Str("hello"), Str("4111****1111")>>,
          <<Str(""), Str("")>>}

InitAnalyse ==
    /\ phase = "header"
    /\ options \in {[source |-> src] : src \in AnalysedSources}
    /\ col_name \in AnalysedHeaders
    /\ series \in AnalysedColumns
    /\ mapped_name = ""
    /\ guessed_type = ""
    /\ files = <<>>
    /\ columns = <<>>
    /\ TransformerIdle
    /\ ProcessorIdle
    /\ ServiceIdle
    /\ data_type = ""
    /\ result = <<>>
    /\ include_reconciliation = FALSE
    /\ TablesIdle
    /\ GeneratorIdle

\* lines 347 and 323: the header without the whitespace around it
clean_col == StripWs(col_name)

\* lines 321-337 for a header of the dictionary, lines 345-353 for another:
\* both give the header the name map_standard_name gives it
MapStandardName ==
    /\ phase = "header"
    /\ mapped_name' = map_standard_name(clean_col, options.source)
    /\ phase' = "named"
    /\ UNCHANGED <<col_name, guessed_type, files, columns, series, options, data_type, result,
                   include_reconciliation, table_vars, generator_vars, transformer_vars,
                   processor_vars, service_vars>>

\* lines 340 and 367: guess_py_type(df[col], mapped_name)
GuessPyType ==
    /\ phase = "named"
    /\ \E decimal_parses \in BOOLEAN :
           guessed_type' =
               guess_py_type(series, col_name, ReadCsvDtype, mapped_name, decimal_parses)
    /\ phase' = "typed"
    /\ UNCHANGED <<col_name, mapped_name, files, columns, series, options, data_type, result,
                   include_reconciliation, table_vars, generator_vars, transformer_vars,
                   processor_vars, service_vars>>

NextAnalyse == MapStandardName \/ GuessPyType

SpecAnalyse == InitAnalyse /\ [][NextAnalyse]_vars

(***************************************************************************)
(* Properties of the analysis of a column (SpecAnalyse).                   *)
(***************************************************************************)
\* re.search of a pattern of STD_FIELD_PATTERNS in a text: its literals
\* occur in the text one after the other
RECURSIVE SearchFrom(_, _, _)
SearchFrom(literals, text, from) ==
    IF literals = <<>> THEN TRUE
    ELSE \E i \in Occurrences(text, Head(literals)) :
             /\ i >= from
             /\ SearchFrom(Tail(literals), text, i + Len(Head(literals)))

\* the patterns the lowercased header matches, by their place in the table
MatchingPatterns(header) ==
    {i \in 1..Len(STD_FIELD_PATTERNS) :
        SearchFrom(STD_FIELD_PATTERNS[i][1], Lower(header), 1)}

\* the name C17 gives a header: dictionary, then pattern, then snake_case
ThreeStageName(header, source) ==
    IF InMapping(source, header) THEN MappedBy(source, header)
    ELSE IF MatchingPatterns(header) # {}
         THEN STD_FIELD_PATTERNS[MinOf(MatchingPatterns(header))][2]
    ELSE map_standard_name(header, source)

\* C17: the canonical name of a header is the name of the source's
\* dictionary if the header is in it, otherwise the canonical name of the
\* generic pattern the header matches, and the snake_case form of the
\* header only if it matches no pattern.
C17_ThreeStageResolution ==
    phase \in {"named", "typed"} => mapped_name = ThreeStageName(clean_col, options.source)

\* what the code does: the dictionary, then snake_case (with "id" renamed);
\* a header outside the dictionary never gets the name of a pattern it
\* matches unless its snake_case form is that name
TwoStageResolution ==
    phase \in {"named", "typed"} =>
        /\ InMapping(options.source, clean_col) =>
               mapped_name = MappedBy(options.source, clean_col)
        /\ ~InMapping(options.source, clean_col) =>
               mapped_name = (IF snake(clean_col) = "id" THEN "source_id" ELSE snake(clean_col))
        /\ \A i \in 1..Len(mapped_name) : IsWordChar(CharAt(mapped_name, i))

\* the snake_case forms of the headers of the model
SnakeExamples ==
    /\ snake("Order Identifier") = "order_identifier"
    /\ snake(" Customer  Name ") = "customer_name"
    /\ snake("Date & Time") = "date_time"
    /\ snake("Paid (on-line)") = "paid_on_line"
    /\ snake("ID") = "id"
    /\ snake("__a__b--_c ") = "a_b_c"

\* the column reaches the tests of lines 286-293: no override and no date
\* term for its canonical name, no card or amount term in its header, a
\* value in it, and a first value that is no masked card number
ReachesSniffing ==
    /\ ~HasOverride(mapped_name)
    /\ ~DateByName(mapped_name)
    /\ series # <<>>
    /\ ~HasAny(Lower(col_name), CardTerms)
    /\ ~LooksMasked(AsStr(series[1]))
    /\ ~HasAny(Lower(col_name), AmountTerms)

\* every value of the column is a whole number
AllIntegers(values) ==
    /\ values # <<>>
    /\ \A i \in 1..Len(values) : AsStr(values[i]) # "" /\ AllDigits(AsStr(values[i]))

\* every value of the column is a decimal
AllDecimals(values) ==
    /\ values # <<>>
    /\ \A i \in 1..Len(values) : IsDecimalText(AsStr(values[i]))

\* C18: a column of a file that reaches value sniffing is typed integer if
\* its sampled values are all integers and float if they are all decimals;
\* the date vote is taken only for the other columns.
C18_NumericSamplesTyped ==
    (phase = "typed" /\ ReachesSniffing) =>
        /\ AllIntegers(series) => guessed_type = "integer"
        /\ AllDecimals(series) => guessed_type = "float"

\* what the code does: the frame is read with dtype=str, so the dtype tests
\* of lines 286-288 fail for every column and the date vote types it; the
\* types integer and float come from the overrides and the amount terms only
SniffedTypeIsDateOrString ==
    phase = "typed" =>
        /\ ReachesSniffing => guessed_type \in {"date", "string"}
        /\ guessed_type = "integer" => HasOverride(mapped_name)
        /\ guessed_type = "float" =>
               (HasOverride(mapped_name) \/ HasAny(Lower(col_name), AmountTerms))

\* C19: a column that reaches the date vote is typed date if and only if at
\* least half of its sampled values parse as dates, whatever the size of the
\* sample from 1 to 6, and string otherwise.
C19_MajorityVote ==
    (phase = "typed" /\ ReachesSniffing) =>
        /\ guessed_type \in {"date", "string"}
        /\ \E decimal_parses \in BOOLEAN :
               guessed_type = "date" <=> 2 * Parsed(series, decimal_parses) >= Len(series)

\* what the code does: the threshold is half the size of the sample rounded
\* down, so a sample of one value is typed date whatever the value, and one
\* of three values with a single date in it is typed date
HalfRoundedDownVote ==
    (phase = "typed" /\ ReachesSniffing) =>
        /\ \E decimal_parses \in BOOLEAN :
               guessed_type = "date" <=>
                   Parsed(series, decimal_parses) >= Len(series) \div 2
        /\ Len(series) = 1 => guessed_type = "date"
        /\ (Len(series) % 2 = 0 /\ ~\E i \in 1..Len(series) : IsDecimalText(AsStr(series[i]))) =>
               (guessed_type = "date" <=> 2 * Parsed(series, FALSE) >= Len(series))

(***************************************************************************)
(* build: the registry of the columns of a source, merged from the files   *)
(* of the source in the order of its file list.  A file is the sequence of *)
(* its columns, each a header and the values read under it.                *)
(***************************************************************************)
\* SQL_TYPE_MAP, lines 20-27
SQL_TYPE_MAP ==
    [integer |-> "INTEGER", float |-> "NUMERIC(18,2)", date |-> "DATE", time |-> "TIME",
     string |-> "VARCHAR(255)", text |-> "TEXT"]

\* TEXT_COLUMNS, lines 30-48, of the sources of the model
TEXT_COLUMNS ==
    [bank |-> {"customer_info", "transaction_details", "notes", "description",
               "payment_description", "reference", "comments"},
     metabase |-> {"order_status", "reservation_status", "order_details", "customer_info",
                   "payment_details", "comments", "address", "notes", "description",
                   "message"},
     checkout_v1 |-> {"customer_address", "customer_email", "customer_name",
                      "payment_description", "order_details", "notes", "comments", "message",
                      "id_token", "description"}]

\* the columns of the file whose header, without the whitespace around it,
\* is the header of the dictionary (line 323)
MatchingCols(file, original_col) ==
    {c \in 1..Len(file) : StripWs(file[c].name) = original_col}

\* lines 320-326: for every entry of the dictionary, in its order, the first
\* column of the file under the entry's header, if there is one
RECURSIVE FromMapping(_, _, _)
FromMapping(file, mapping, i) ==
    IF i > Len(mapping) THEN <<>>
    ELSE (IF MatchingCols(file, mapping[i][1]) = {} THEN <<>>
          ELSE << <<mapping[i][1], mapping[i][2],
                    file[MinOf(MatchingCols(file, mapping[i][1]))]>> >>)
         \o FromMapping(file, mapping, i + 1)

\* lines 345-353: the columns of the file outside the dictionary, in the
\* order of the file, under the name map_standard_name gives them
RECURSIVE Remaining(_, _, _)
Remaining(file, source, c) ==
    IF c > Len(file) THEN <<>>
    ELSE (IF InMapping(source, StripWs(file[c].name)) THEN <<>>
          ELSE << <<StripWs(file[c].name),
                    map_standard_name(StripWs(file[c].name), source), file[c]>> >>)
         \o Remaining(file, source, c + 1)

\* lines 337-342 and 364-369: the specification stored for a column
ColumnSpec(original, mapped, column, decimal_parses) ==
    [original |-> original,
     map_to |-> mapped,
     py_type |-> guess_py_type(column.values, column.name, ReadCsvDtype, mapped,
                               decimal_parses),
     sql_type |-> "VARCHAR(255)"]

\* the specifications under a canonical name
Named(specs, mapped) == {i \in 1..Len(specs) : specs[i].map_to = mapped}

\* lines 329-334 and 356-361: a column whose canonical name was seen in the
\* file is skipped
RECURSIVE Stored(_, _, _, _)
Stored(candidates, i, out, decimal_parses) ==
    IF i > Len(candidates) THEN out
    ELSE Stored(candidates, i + 1,
                IF Named(out, candidates[i][2]) # {} THEN out
                ELSE Append(out, ColumnSpec(candidates[i][1], candidates[i][2],
                                            candidates[i][3], decimal_parses)),
                decimal_parses)

\* analyse_csv, lines 301-371: the specifications of the columns of a file,
\* in the order they are stored in
analyse_csv(file, source, decimal_parses) ==
    Stored(FromMapping(file, MappingOf(source), 1) \o Remaining(file, source, 1), 1, <<>>,
           decimal_parses)

\* the mutant of Merged: a name seen in an earlier file is stored again
Merged_LastWins(registry, file_columns, i) ==
    IF Named(registry, file_columns[i].map_to) = {} THEN Append(registry, file_columns[i])
    ELSE [registry EXCEPT ![MinOf(Named(registry, file_columns[i].map_to))] = file_columns[i]]

\* lines 401-403: a name no earlier file of the source gave is added; the
\* specification of a name that is in the registry is left as it is
Merged(registry, file_columns, i) ==
    IF Named(registry, file_columns[i].map_to) = {} THEN Append(registry, file_columns[i])
    ELSE registry

\* lines 400-403
RECURSIVE MergedFrom(_, _, _)
MergedFrom(registry, file_columns, i) ==
    IF i > Len(file_columns) THEN registry
    ELSE MergedFrom(Merged(registry, file_columns, i), file_columns, i + 1)

\* lines 397-403
RECURSIVE MergedFiles(_, _, _, _, _)
MergedFiles(file_list, source, f, registry, decimal_parses) ==
    IF f > Len(file_list) THEN registry
    ELSE MergedFiles(file_list, source, f + 1,
                     MergedFrom(registry, analyse_csv(file_list[f], source, decimal_parses), 1),
                     decimal_parses)

\* lines 413-427: the py_type the name of the column enforces, or the
\* py_type inferred
NameEnforces(mapped) ==
    \/ mapped \in DATE_COLUMNS \/ Contains(mapped, "date")
    \/ mapped \in {"order_id", "portal_order_id", "gateway_order_id"}
    \/ mapped = "rrn"
    \/ HasAny(mapped, {"amount", "total", "fee", "cash"})

EnforcedType(mapped, inferred) ==
    IF mapped \in DATE_COLUMNS \/ Contains(mapped, "date") THEN "date"
    ELSE IF mapped \in {"order_id", "portal_order_id", "gateway_order_id"} THEN "integer"
    ELSE IF mapped = "rrn" THEN "string"
    ELSE IF HasAny(mapped, {"amount", "total", "fee", "cash"}) THEN "float"
    ELSE inferred

\* lines 430-440
SqlType(source, mapped, enforced) ==
    IF source \in DOMAIN TEXT_COLUMNS /\ mapped \in TEXT_COLUMNS[source] THEN SQL_TYPE_MAP["text"]
    ELSE IF source = "payfort" /\ mapped = "time" THEN SQL_TYPE_MAP["time"]
    ELSE IF enforced \in DOMAIN SQL_TYPE_MAP THEN SQL_TYPE_MAP[enforced]
    ELSE SQL_TYPE_MAP["string"]

\* lines 408-440
Typed(registry, source) ==
    [i \in 1..Len(registry) |->
        [registry[i] EXCEPT
            !.py_type = EnforcedType(registry[i].map_to, registry[i].py_type),
            !.sql_type = SqlType(source, registry[i].map_to,
                                 EnforcedType(registry[i].map_to, registry[i].py_type))]]

\* build, lines 382-440, for one source: out[src]["columns"] in the order
\* of its keys
build(file_list, source, decimal_parses) ==
    Typed(MergedFiles(file_list, source, 1, <<>>, decimal_parses), source)

(***************************************************************************)
(* SpecBuild: build on a source with up to MaxFiles files of up to         *)
(* MaxFileColumns columns.                                                 *)
(***************************************************************************)
MaxFiles == 2
MaxFileColumns == 2

BuiltSources == {"bank", "metabase"}

\* the columns the files are made of.  "Payment ID" is a header of the
\* dictionary of bank, where it and the third header share the canonical
\* name payment_online_transaction_id; for metabase it becomes payment_id
\* and the third header is the one of its dictionary, gateway_order_id
FileColumns ==
    {[name |-> "Payment ID", values |-> <<Str("hello"), Str("hello")>>],
     [name |-> "Payment ID", values |-> <<Str("2024-01-31"), Str("2024-02-29")>>],
     [name |-> "payment_online_transaction_id ", values |-> <<Str("hello"), Str("7")>>]}

\* the files: the headers of a file differ
SourceFiles ==
    {file \in UNION {[1..n -> FileColumns] : n \in 1..MaxFileColumns} :
        \A a, b \in 1..Len(file) : a # b => file[a].name # file[b].name}

InitBuild ==
    /\ phase = "files"
    /\ options \in {[source |-> src] : src \in BuiltSources}
    /\ files \in UNION {[1..n -> SourceFiles] : n \in 1..MaxFiles}
    /\ columns = <<>>
    /\ col_name = ""
    /\ mapped_name = ""
    /\ guessed_type = ""
    /\ TransformerIdle
    /\ ProcessorIdle
    /\ ServiceIdle
    /\ data_type = ""
    /\ series = <<>>
    /\ result = <<>>
    /\ include_reconciliation = FALSE
    /\ TablesIdle
    /\ GeneratorIdle

\* build, lines 382-440
Build ==
    /\ phase = "files"
    /\ \E decimal_parses \in BOOLEAN :
           columns' = build(files, options.source, decimal_parses)
    /\ phase' = "built"
    /\ UNCHANGED <<col_name, mapped_name, guessed_type, files, series, options, data_type,
                   result, include_reconciliation, table_vars, generator_vars,
                   transformer_vars, processor_vars, service_vars>>

\* write_py, lines 444-450: the registry is written out
WritePy ==
    /\ phase = "built"
    /\ phase' = "written"
    /\ UNCHANGED <<include_reconciliation, table_vars, generator_vars, cleaner_vars,
                   pipeline_vars>>

NextBuild == Build \/ WritePy

SpecBuild == InitBuild /\ [][NextBuild]_vars

(***************************************************************************)
(* Properties of the registry (SpecBuild).  No value of the files of the   *)
(* model is a decimal, so the analysis of a file does not depend on what   *)
(* dateutil reads from one.                                                *)
(***************************************************************************)
\* what analyse_csv yields for every file of the list
Yields == [f \in 1..Len(files) |-> analyse_csv(files[f], options.source, FALSE)]

\* the specification a file yields for a canonical name
YieldOf(yields, f, mapped) == yields[f][MinOf(Named(yields[f], mapped))]

\* the files of the list that yield the canonical name
YieldingFiles(yields, mapped) == {f \in 1..Len(yields) : Named(yields[f], mapped) # {}}

\* the files of the source yield different specifications for the name
Conflicting(yields, mapped) ==
    \E f, g \in YieldingFiles(yields, mapped) :
        \/ YieldOf(yields, f, mapped).original # YieldOf(yields, g, mapped).original
        \/ YieldOf(yields, f, mapped).py_type # YieldOf(yields, g, mapped).py_type

\* the entry of the registry is the header and the type the file yields
EntryFrom(entry, yields, f) ==
    /\ entry.original = YieldOf(yields, f, entry.map_to).original
    /\ entry.py_type = YieldOf(yields, f, entry.map_to).py_type

FirstYielding(yields, mapped) == MinOf(YieldingFiles(yields, mapped))

LastYielding(yields, mapped) == MaxOf(YieldingFiles(yields, mapped))

\* the name is one no override and no name-based rule gives a type
Unenforced(mapped) == ~NameEnforces(mapped) /\ ~HasOverride(mapped)

LastSeenFileWins(yields) ==
    \A i \in 1..Len(columns) :
        (Conflicting(yields, columns[i].map_to) /\ Unenforced(columns[i].map_to)) =>
            EntryFrom(columns[i], yields, LastYielding(yields, columns[i].map_to))

\* C20: where the files of a source yield different original headers or
\* types for a canonical name that no name-based override applies to, the
\* entry of the registry is the one of the last file of the list that
\* yields the name.
C20_LastSeenFileWins ==
    phase \in {"built", "written"} => LastSeenFileWins(Yields)

FirstSeenFileWins(yields) ==
    /\ \A i \in 1..Len(columns) :
           /\ YieldingFiles(yields, columns[i].map_to) # {}
           /\ columns[i].original =
                  YieldOf(yields, FirstYielding(yields, columns[i].map_to),
                          columns[i].map_to).original
           /\ ~NameEnforces(columns[i].map_to) =>
                  EntryFrom(columns[i], yields, FirstYielding(yields, columns[i].map_to))
           /\ Cardinality(Named(columns, columns[i].map_to)) = 1
    /\ \A f \in 1..Len(yields) :
           \A c \in 1..Len(yields[f]) : Named(columns, yields[f][c].map_to) # {}

\* C20 as the code has it: the entry of the registry is the one of the
\* first file of the list that yields the name (its py_type replaced where
\* the name enforces one), every name has one entry, and every name a file
\* yields has an entry.
C20_FirstSeenFileWins ==
    phase \in {"built", "written"} => FirstSeenFileWins(Yields)

ConflictKeptFromFirst(yields) ==
    \E i \in 1..Len(columns) :
        /\ Conflicting(yields, columns[i].map_to)
        /\ Unenforced(columns[i].map_to)
        /\ EntryFrom(columns[i], yields, FirstYielding(yields, columns[i].map_to))
        /\ ~EntryFrom(columns[i], yields, LastYielding(yields, columns[i].map_to))

\* the files yield different specifications for a name nothing enforces a
\* type for, and the last file's differs from the entry of the registry
C20_Witness ==
    phase = "built" /\ ConflictKeptFromFirst(Yields)

(***************************************************************************)
(* Properties of the identifiers of the reconciliation join (SpecMatch).   *)
(***************************************************************************)
\* the identifier is NULL or the empty text
Absent(x) == x = Null \/ x = Some("")

\* the labels of the tiers that compare the authorization code, and of the
\* tiers that compare the RRN
AuthCodeTierLabels == {Some(TierLabel[n]) : n \in {1, 3, 4, 6, 7}}
RrnTierLabels == {Some(TierLabel[n]) : n \in {1, 2, 5}}

\* C25: a gateway row whose final_authorization_code is NULL or '' is joined
\* to no bank row through a tier on the authorization code, and one whose
\* final_rrn is NULL or '' is joined to none through a tier on the RRN.
C25_NoMatchOnAbsentIdentifier ==
    phase = "view" =>
        \A n \in 1..Len(payment_analysis_view) :
            LET v == payment_analysis_view[n]
            IN  /\ Absent(v.final_authorization_code) =>
                       v.bank_match_type \notin AuthCodeTierLabels
                /\ Absent(v.final_rrn) => v.bank_match_type \notin RrnTierLabels

\* what the query does: a NULL identifier satisfies no tier, and the empty
\* text is compared like any other text, so it matches a bank row that
\* holds the empty text in the same column and no other
NullIdentifierNeverMatches ==
    phase = "view" =>
        \A n \in 1..Len(payment_analysis_view) :
            LET v == payment_analysis_view[n]
            IN  /\ v.final_authorization_code = Null =>
                       v.bank_match_type \notin AuthCodeTierLabels
                /\ v.final_rrn = Null => v.bank_match_type \notin RrnTierLabels
                /\ (v.final_authorization_code = Some("")
                    /\ v.bank_match_type \in AuthCodeTierLabels) => v.bank_auth_code = Some("")
                /\ (v.final_rrn = Some("") /\ v.bank_match_type \in RrnTierLabels) =>
                       v.bank_rrn = Some("")
                /\ v.gateway_source = "tamara" => v.final_authorization_code = Some("")

(***************************************************************************)
(* Properties of the filter of transaction_with_analysis (SpecView).       *)
(***************************************************************************)
\* the view rows of the group of a ranked_transactions row
ViewRowsOfGroup(rt) ==
    {n \in 1..Len(payment_analysis_view) : SameGroup(payment_analysis_view[n], rt)}

\* C26: every (gateway_order_id, gateway_transaction_id) group that holds a
\* row classified Success has a row in the view; a successful authorization
\* is removed only when a capture of its group is kept.
C26_SuccessfulGroupKept ==
    phase = "view" =>
        \A i \in 1..Len(Ranked) :
            TransactionOutcome(Ranked[i]) = "Success" => ViewRowsOfGroup(Ranked[i]) # {}

\* what the query does: a row classified Success is in the view exactly
\* when the test of line 702 is true for it; an authorization of a group
\* with a capture is removed whether or not the capture is kept, and so is
\* a row of such a group whose is_auth is NULL
SuccessfulRowKeptUnlessMerged ==
    phase = "view" =>
        \A i \in 1..Len(Ranked) :
            TransactionOutcome(Ranked[i]) = "Success" =>
                (NotMergedAuth(Ranked[i]) = TRUE3 <=> ViewRowsOf({Ranked[i].src}) # {})

\* a group of a successful authorization and captures that all failed: the
\* group has no row in the view
MergedAuthLost ==
    /\ phase = "view"
    /\ \E i \in 1..Len(Ranked) :
           /\ Ranked[i].is_auth = TRUE3
           /\ TransactionOutcome(Ranked[i]) = "Success"
           /\ Ranked[i].has_capture_in_group = 1
           /\ ViewRowsOfGroup(Ranked[i]) = {}

\* C27: for a capture whose group holds an authorization, final_rrn is NULL
\* only if the authorization's rrn and the capture's own rrn are both NULL,
\* and likewise final_authorization_code: the merge never replaces an
\* identifier the capture carries by NULL.
C27_OwnIdentifierNotLost ==
    phase = "view" =>
        \A n \in 1..Len(payment_analysis_view) :
            LET v == payment_analysis_view[n]
            IN  (v.is_capture = TRUE3 /\ v.has_auth_in_group = 1) =>
                    /\ v.final_rrn = Null => (v.rrn = Null /\ v.auth_rrn_in_group = Null)
                    /\ v.final_authorization_code = Null =>
                           (v.authorization_code = Null
                            /\ v.auth_authorization_code_in_group = Null)

\* what the query does: the identifiers of a merged capture are those of the
\* authorizations of its group, NULL when they carry none, whatever the
\* capture itself carries
MergedCaptureTakesAuthIdentifiers ==
    phase = "view" =>
        \A n \in 1..Len(payment_analysis_view) :
            LET v == payment_analysis_view[n]
            IN  (v.is_capture = TRUE3 /\ v.has_auth_in_group = 1) =>
                    /\ v.final_rrn = v.auth_rrn_in_group
                    /\ v.final_authorization_code = v.auth_authorization_code_in_group

(***************************************************************************)
(* Specification SpecFlags: one gateway row of any gateway, with every     *)
(* status text, response code and (for tamara) transaction type the        *)
(* classification distinguishes; no reconciliation.                        *)
(***************************************************************************)
FlagStatuses ==
    {Null, Some(ST_Authorisation), Some(ST_Authorization), Some(ST_Capture), Some(ST_Approved),
     Some(ST_Refund), Some(ST_Void), Some(ST_Cancel), Some(ST_Declined),
     Some(ST_fully_refunded), Some(KW_PARTIALLY_REFUNDED), Some(ST_canceled),
     Some(ST_approved)}

FlagTxnTypes == {Null, Some(KW_AUTHORIZE), Some(KW_REFUND), Some(KW_CANCEL), Some(KW_CAPTURE)}

FlagRowDomain ==
    { [ gw |-> g, order_id |-> Some(1001), txn_id |-> Some("T1"), amount |-> Some(1000),
        status |-> s, tdate |-> Some(1), auth |-> Some("C1"), rrn |-> Some("A1"), resp |-> c,
        txn_type |-> t ] :
        g \in {gateway_names_ordered[i] : i \in 1..Len(gateway_names_ordered)},
        s \in FlagStatuses, c \in {Null, Some("10000"), Some("20005")}, t \in FlagTxnTypes }

InitFlags ==
    /\ phase = "tables"
    /\ gateway_rows \in {<<g>> : g \in FlagRowDomain}
    /\ include_reconciliation = FALSE
    /\ bank = <<>>
    /\ payment_analysis_view = <<>>
    /\ GeneratorIdle
    /\ CleanerIdle
    /\ PipelineIdle

SpecFlags == InitFlags /\ [][NextView]_vars

(***************************************************************************)
(* Properties of the lifecycle flags (SpecFlags).                          *)
(***************************************************************************)
LifecycleFlags == {"is_auth", "is_capture", "is_refund", "is_void"}

\* the value of a flag of a row of gateway_analysis
FlagOf(ga, flag) ==
    CASE flag = "is_auth" -> ga.is_auth
      [] flag = "is_capture" -> ga.is_capture
      [] flag = "is_refund" -> ga.is_refund
      [] flag = "is_void" -> ga.is_void

\* the flags the expressions of a gateway can make true: is_capture_expr of
\* tamara is the constant FALSE
SettableFlags(gw) == IF gw = "tamara" THEN LifecycleFlags \ {"is_capture"} ELSE LifecycleFlags

\* the rows of the gateway, alone in their table, that carry the flag and
\* are in the view
FlaggedInView(gw, flag) ==
    {r \in FlagRowDomain :
        /\ r.gw = gw
        /\ FlagOf(GatewaySelect(gw, r, 1), flag) = TRUE3
        /\ PaymentAnalysisView(<<r>>, <<>>, FALSE) # <<>>}

\* C28: for the gateway of the row and every lifecycle flag its branch can
\* set, some row of that gateway with the flag set is classified Success
\* and is in the view.
C28_EveryFlagCanSucceed ==
    phase = "view" =>
        \A flag \in SettableFlags(gateway_rows[1].gw) :
            FlaggedInView(gateway_rows[1].gw, flag) # {}

\* what the query does: the response code of payfort is the constant '',
\* so a payfort row succeeds by its status alone, and the statuses that
\* succeed (APPROVED, FULLY_REFUNDED, PARTIALLY_REFUNDED, CANCELED) set no
\* flag but is_refund; every other gateway has a successful row for each of
\* its flags
PayfortOnlyRefundsSucceed ==
    phase = "view" =>
        /\ \A n \in 1..Len(payment_analysis_view) :
               payment_analysis_view[n].gateway_source = "payfort" =>
                   /\ payment_analysis_view[n].is_auth # TRUE3
                   /\ payment_analysis_view[n].is_capture # TRUE3
                   /\ payment_analysis_view[n].is_void # TRUE3
                   /\ payment_analysis_view[n].response_code = Some("")
        /\ FlaggedInView("payfort", "is_refund") # {}
        /\ \A gw \in {"checkout_v1", "checkout_v2", "tamara"} :
               \A flag \in SettableFlags(gw) : FlaggedInView(gw, flag) # {}

(***************************************************************************)
(* Properties of the tier labels (SpecMatch).                              *)
(***************************************************************************)
\* the gateway row carries both identifiers, an amount and a date
FullyIdentified(ta) ==
    /\ ~Absent(ta.final_authorization_code)
    /\ ~Absent(ta.final_rrn)
    /\ ta.amount # Null
    /\ ta.transaction_date # Null

\* the labels bank_match_type takes for the row over the bank rows of the
\* model
LabelsFor(ta) == {BankMatchType(ta, b) : b \in MatchBankDomain}

\* C29: every one of the seven tier labels is reachable: for a gateway row
\* that carries both identifiers, an amount and a date there is, for every
\* tier, a bank row for which bank_match_type is the label of that tier.
C29_EveryTierLabelReachable ==
    phase = "view" =>
        \A i \in 1..Len(Twa) :
            FullyIdentified(Twa[i]) =>
                \A n \in 1..7 : Some(TierLabel[n]) \in LabelsFor(Twa[i])

\* what the query does: the CASE tests 'Authorization Code + Amount' before
\* 'Authorization Code + Same Day + Amount' for each tolerance, and every
\* pair that satisfies the second satisfies the first, so the two same-day
\* labels are never assigned; the five other labels are
SameDayLabelsNeverAssigned ==
    phase = "view" =>
        \A n \in 1..Len(payment_analysis_view) :
            /\ payment_analysis_view[n].bank_match_type
                   \notin {Some(TierLabel[4]), Some(TierLabel[7])}
            /\ payment_analysis_view[n].bid # 0 =>
                   payment_analysis_view[n].bank_match_type
                       \in {Some(TierLabel[k]) : k \in {1, 2, 3, 5, 6}}

\* a pair that satisfies a same-day tier and carries another label
SameDayPairShadowed ==
    /\ phase = "view"
    /\ \E n \in 1..Len(payment_analysis_view) :
           LET v == payment_analysis_view[n]
           IN  /\ v.bid # 0
               /\ Tier(4, v, bank[v.bid])
               /\ v.bank_match_type = Some(TierLabel[3])

(***************************************************************************)
(* Specification SpecDates: DateCleaner.clean on a column of null tokens,  *)
(* of texts each of its stages reads, and of a text none reads.            *)
(***************************************************************************)
DateTexts ==
    {"None", "", "45322.5", "01/02/2024", "2024-01-31", "2024-01-31T10:00:00", "abc"}

InitDates ==
    /\ phase = "column"
    /\ data_type = "date"
    /\ series \in SeqsUpTo({Null} \cup {Str(s) : s \in DateTexts}, MaxSeriesLen)
    /\ options \in {[source |-> s] : s \in Sources}
    /\ result = <<>>
    /\ include_reconciliation = FALSE
    /\ TablesIdle
    /\ GeneratorIdle
    /\ PipelineIdle

SpecDates == InitDates /\ [][NextClean]_vars

(***************************************************************************)
(* Properties of the stages of DateCleaner (SpecDates).                    *)
(***************************************************************************)
\* what each stage reads from a cell, taken alone: the spreadsheet serial
\* (lines 200-219), the formats of the source (lines 221-247), the generic
\* formats (lines 249-293), the inference of pandas (lines 295-314)
SerialStage(cell) == IF IsStr(cell) THEN ExcelDate(StrOf(cell)) ELSE Null
SourceStage(cell, source) ==
    IF source \in DOMAIN source_formats THEN FirstParsed(cell, source_formats[source]) ELSE Null
GenericStage(cell) == FirstParsed(cell, date_formats)
FuzzyStage(cell) == InferDatetime(cell)

\* the value of the first stage, in the order of the code, that reads the cell
FirstStageValue(cell, source) ==
    IF SerialStage(cell) # Null THEN SerialStage(cell)
    ELSE IF SourceStage(cell, source) # Null THEN SourceStage(cell, source)
    ELSE IF GenericStage(cell) # Null THEN GenericStage(cell)
    ELSE FuzzyStage(cell)

\* C24: DateCleaner.clean runs null detection, spreadsheet serials, the
\* formats of the source, the generic formats and the inference in this
\* order; a row that is null or a null token is null in the result, and the
\* value the first stage that reads a row gives it is the row's value in the
\* result, whatever the later stages read from it.
C24_StagesInOrder ==
    (phase = "cleaned" /\ data_type = "date") =>
        /\ Len(result) = Len(series)
        /\ \A i \in 1..Len(series) :
               IF IsNullInput(series[i]) THEN IsNa(result[i])
               ELSE result[i] = FirstStageValue(series[i], options.source)

\* a column of tamara with a row the formats of the source read as the 2nd
\* of January and the generic formats as the 1st of February, and a row the
\* serial stage reads
C24_Witness ==
    /\ phase = "cleaned"
    /\ data_type = "date"
    /\ options.source = "tamara"
    /\ \E i, j \in 1..Len(series) :
           /\ series[i] = Str("01/02/2024")
           /\ result[i] = <<"datetime64", 2024, 1, 2, 0>>
           /\ GenericStage(series[i]) = <<"datetime64", 2024, 2, 1, 0>>
           /\ series[j] = Str("45322.5")
           /\ result[j] # Null

(***************************************************************************)
(* DataCleanerApp.run (data_cleaner.py): every file of every source is a   *)
(* task of a worker, a process of a pool or a thread of an executor.       *)
(***************************************************************************)
MaxSourceFiles == 2

\* the keys of config, in the order of the dictionary
RunSources == <<"bank", "portal">>

\* input files: two of the same name in two directories, and a third
InputFiles ==
    { [parent |-> "jan", stem |-> "report", suffix |-> ".csv"],
      [parent |-> "feb", stem |-> "report", suffix |-> ".csv"],
      [parent |-> "jan", stem |-> "refunds", suffix |-> ".csv"] }

\* a list without repetition
IsInjective(seq) == \A i, j \in 1..Len(seq) : seq[i] = seq[j] => i = j

FileLists == {list \in SeqsUpTo(InputFiles, MaxSourceFiles) : IsInjective(list)}

\* lines 1801-1805: one task for every file of every source, source by source
TasksOf(source) == {<<source, i>> : i \in 1..Len(run_config[source])}
AllTasks == UNION {TasksOf(RunSources[k]) : k \in 1..Len(RunSources)}
FileOf(task) == run_config[task[1]][task[2]]

\* process_file, lines 1225-1227: the output file of a task, in output_dir
OutputFile(source, file_path) == source \o "_" \o file_path.stem \o ".parquet"

OutputOf(task) == OutputFile(task[1], FileOf(task))

Busy == {t \in AllTasks : worker[t] = "writing"}
Finished(t) == worker[t] \in {"done", "failed", "recorded"}

\* the outputs of the tasks of a source in a state, in the order of the files
RECURSIVE OutputsIn(_, _, _)
OutputsIn(source, i, state) ==
    IF i > Len(run_config[source]) THEN <<>>
    ELSE (IF worker[<<source, i>>] = state THEN <<OutputOf(<<source, i>>)>> ELSE <<>>)
         \o OutputsIn(source, i + 1, state)

InitRun ==
    /\ phase = "run"
    /\ run_config \in [{RunSources[k] : k \in 1..Len(RunSources)} -> FileLists]
    /\ process_based \in BOOLEAN
    /\ max_workers \in 1..2
    /\ corrupt \in SUBSET InputFiles
    /\ worker = [t \in AllTasks |-> "none"]
    /\ disk = {}
    /\ touched = {}
    \* line 1794
    /\ parquet_files = [s \in DOMAIN run_config |-> <<>>]
    /\ source_index = 0
    /\ include_reconciliation = FALSE
    /\ TablesIdle
    /\ GeneratorIdle
    /\ CleanerIdle
    /\ TransformerIdle
    /\ ProcessorIdle
    /\ RegistryIdle
    /\ ExecutorIdle
    /\ RunnerIdle

run_frame ==
    <<include_reconciliation, table_vars, generator_vars, cleaner_vars, transformer_vars,
      processor_vars, registry_vars, executor_vars, runner_vars>>

\* run, lines 1796-1820: process mode, every task of every source goes to one
\* pool
MapTasks ==
    /\ phase = "run"
    /\ process_based
    /\ worker' = [t \in AllTasks |-> "queued"]
    /\ phase' = "pool"
    /\ UNCHANGED <<run_config, process_based, max_workers, corrupt, disk, touched,
                   parquet_files, source_index, run_frame>>

\* run, lines 1828-1832, and _process_source_parallel, lines 1845-1852 and
\* 1880-1885: thread mode, the sources one after the other; the files of the
\* source are submitted once those of the source before are all recorded
SubmitSource ==
    /\ ~process_based
    /\ \/ phase = "run"
       \/ /\ phase = "threads"
          /\ \A t \in TasksOf(RunSources[source_index]) : worker[t] = "recorded"
    /\ IF source_index = Len(RunSources)
       THEN \* line 1839
            /\ phase' = "returned"
            /\ UNCHANGED <<worker, source_index>>
       ELSE /\ phase' = "threads"
            /\ source_index' = source_index + 1
            /\ worker' = [t \in AllTasks |->
                             IF t \in TasksOf(RunSources[source_index + 1]) THEN "queued"
                             ELSE worker[t]]
    /\ UNCHANGED <<run_config, process_based, max_workers, corrupt, disk, touched,
                   parquet_files, run_frame>>

\* a worker takes a task: process_file up to the batches written through the
\* ParquetWriter it opened on the output file, lines 1225-1227 and 1254-1310
WriteBatches(t) ==
    /\ phase \in {"pool", "threads", "unwinding"}
    /\ worker[t] = "queued"
    /\ Cardinality(Busy) < max_workers
    /\ worker' = [worker EXCEPT ![t] = "writing"]
    /\ disk' = disk \cup {OutputOf(t)}
    /\ touched' = touched \cup {<<t, OutputOf(t)>>}
    /\ UNCHANGED <<phase, run_config, process_based, max_workers, corrupt, parquet_files,
                   source_index, run_frame>>

\* a batch of the file fails: lines 1318-1346, the output file is removed if
\* it exists and the error is raised
FailFast(t) ==
    /\ worker[t] = "writing"
    /\ FileOf(t) \in corrupt
    /\ worker' = [worker EXCEPT ![t] = "failed"]
    /\ disk' = disk \ {OutputOf(t)}
    /\ touched' = IF OutputOf(t) \in disk THEN touched \cup {<<t, OutputOf(t)>>} ELSE touched
    /\ UNCHANGED <<phase, run_config, process_based, max_workers, corrupt, parquet_files,
                   source_index, run_frame>>

\* every batch is written: lines 1233-1242 and 1456-1481, the output file is
\* read and rewritten; a failure of the rewriting is logged, not raised
PostProcess(t) ==
    /\ worker[t] = "writing"
    /\ FileOf(t) \notin corrupt
    /\ worker' = [worker EXCEPT ![t] = "done"]
    /\ touched' = IF OutputOf(t) \in disk THEN touched \cup {<<t, OutputOf(t)>>} ELSE touched
    /\ UNCHANGED <<phase, run_config, process_based, max_workers, corrupt, disk, parquet_files,
                   source_index, run_frame>>

\* run, lines 1820-1827: pool.map has returned, the results in the order of
\* the tasks; mp_worker_wrapper returned None for a task that failed (lines
\* 1966-1975), and None is not recorded
RecordResults ==
    /\ phase = "pool"
    /\ \A t \in AllTasks : Finished(t)
    /\ parquet_files' = [s \in DOMAIN run_config |-> OutputsIn(s, 1, "done")]
    /\ phase' = "returned"
    /\ UNCHANGED <<run_config, process_based, max_workers, corrupt, worker, disk, touched,
                   source_index, run_frame>>

\* _process_source_parallel, lines 1887-1896: the loop over as_completed takes
\* a future that is done; its output is recorded, or its error is raised out
\* of the loop
AsCompleted(t) ==
    /\ phase = "threads"
    /\ t \in TasksOf(RunSources[source_index])
    /\ \/ /\ worker[t] = "done"
          /\ worker' = [worker EXCEPT ![t] = "recorded"]
          /\ parquet_files' =
                 [parquet_files EXCEPT ![t[1]] = Append(parquet_files[t[1]], OutputOf(t))]
          /\ UNCHANGED phase
       \/ /\ worker[t] = "failed"
          /\ phase' = "unwinding"
          /\ UNCHANGED <<worker, parquet_files>>
    /\ UNCHANGED <<run_config, process_based, max_workers, corrupt, disk, touched,
                   source_index, run_frame>>

\* the with block of the executor, line 1880, left by the error: shutdown
\* waits for the threads of the source, then the error leaves run
Unwind ==
    /\ phase = "unwinding"
    /\ \A t \in TasksOf(RunSources[source_index]) : Finished(t)
    /\ phase' = "raised"
    /\ UNCHANGED <<app_vars, run_frame>>

NextRun ==
    \/ MapTasks
    \/ SubmitSource
    \/ \E t \in AllTasks : WriteBatches(t)
    \/ \E t \in AllTasks : FailFast(t)
    \/ \E t \in AllTasks : PostProcess(t)
    \/ RecordResults
    \/ \E t \in AllTasks : AsCompleted(t)
    \/ Unwind

SpecRun == InitRun /\ [][NextRun]_vars

(***************************************************************************)
(* Properties of the run (SpecRun).                                        *)
(***************************************************************************)
RunOver == phase \in {"returned", "raised"}

\* the task processed its file to the end, and its output is in the map run
\* returns
Recorded(t) ==
    /\ worker[t] \in {"done", "recorded"}
    /\ phase = "returned"
    /\ \E i \in 1..Len(parquet_files[t[1]]) : parquet_files[t[1]][i] = OutputOf(t)

\* C21: when the processing of a file fails, every other file of the run is
\* still processed to the end and every output produced is in the map run
\* returns, in process mode and in thread mode, whatever the order in which
\* the workers finish.
C21_FailureDoesNotAbortSiblings ==
    RunOver => \A t \in AllTasks : FileOf(t) \notin corrupt => Recorded(t)

\* what holds of the process mode
ProcessModeIsolatesFailures ==
    (RunOver /\ process_based) => \A t \in AllTasks : FileOf(t) \notin corrupt => Recorded(t)

\* thread mode: a failure ends run with the error, and the files of the later
\* sources are never submitted
ThreadModeRaises ==
    (RunOver /\ ~process_based) =>
        (phase = "raised") = (\E t \in AllTasks : worker[t] = "failed")

SiblingNeverSubmitted ==
    /\ phase = "raised"
    /\ \E t \in AllTasks : worker[t] = "none" /\ FileOf(t) \notin corrupt

\* C30: no two workers of a run write the same output file: two tasks of
\* different (source, input file) have different output files, so no output
\* file is written, removed after a failure or rewritten by more than one
\* worker.
C30_OneWorkerPerArtifact ==
    \A a, b \in touched : a[2] = b[2] => a[1] = b[1]

\* what holds: the output file is a function of the source and of the name
\* of the input file without its directory and its suffix
OutputNamedAfterStem ==
    \A t1, t2 \in AllTasks :
        (OutputOf(t1) = OutputOf(t2)) = (t1[1] = t2[1] /\ FileOf(t1).stem = FileOf(t2).stem)

\* run returned an output file that the failure of the worker of another
\* input file removed
RecordedOutputRemoved ==
    /\ phase = "returned"
    /\ \E t \in AllTasks : Recorded(t) /\ OutputOf(t) \notin disk

(***************************************************************************)
(* execute_query_with_timeout (sql_executor.py, lines 122-474): the query  *)
(* runs in the one thread of a ThreadPoolExecutor, the caller waits for    *)
(* its result for timeout seconds.                                         *)
(***************************************************************************)
MaxTimeout == 2
MaxDuration == 3
MaxClock == 4

\* time.sleep(2) between pg_cancel_backend and the check, line 452
CancelWait == 2

\* what the query does: whether it ends, and after how many seconds
Durations == 0..MaxDuration

\* what cancelling does to the query: the backend of the query is among the
\* five the cancellation picks and stops, or it is not, or connecting fails
CancelOutcomes == {"stops", "fails"}

TimeoutMessage == [text |-> "Query execution timed out after", seconds |-> call.timeout]

InitTimeout ==
    /\ phase = "execute"
    /\ call \in [timeout : 1..MaxTimeout, ends : BOOLEAN, duration : Durations, engine : BOOLEAN,
                 cancel : CancelOutcomes]
    /\ elapsed = 0
    /\ query_thread = "idle"
    /\ caller = "call"
    /\ returned = <<>>
    /\ include_reconciliation = FALSE
    /\ TablesIdle
    /\ GeneratorIdle
    /\ CleanerIdle
    /\ TransformerIdle
    /\ ProcessorIdle
    /\ RegistryIdle
    /\ AppIdle
    /\ RunnerIdle

timeout_frame ==
    <<phase, include_reconciliation, table_vars, generator_vars, cleaner_vars, transformer_vars,
      processor_vars, registry_vars, app_vars, runner_vars>>

\* lines 417-420: the query is submitted, the caller waits in future.result
Submit ==
    /\ caller = "call"
    /\ query_thread' = "running"
    /\ caller' = "waiting"
    /\ UNCHANGED <<call, elapsed, returned, timeout_frame>>

\* a second passes; the query ends when its seconds are over and the wait
\* ends when the timeout is over
Tick ==
    /\ caller \notin {"call", "returned"}
    /\ elapsed < MaxClock
    /\ ~(query_thread = "running" /\ call.ends /\ call.duration = elapsed)
    /\ ~(caller = "waiting" /\ call.timeout = elapsed)
    /\ elapsed' = elapsed + 1
    /\ UNCHANGED <<call, query_thread, caller, returned, timeout_frame>>

\* _execute_query returns, lines 141-415
QueryEnds ==
    /\ query_thread = "running"
    /\ call.ends
    /\ elapsed >= call.duration
    /\ query_thread' = "done"
    /\ UNCHANGED <<call, elapsed, caller, returned, timeout_frame>>

\* lines 420-421: the result is there in time; the with block is left, its
\* thread has ended
ReturnResult ==
    /\ caller = "waiting"
    /\ query_thread = "done"
    /\ caller' = "returned"
    /\ returned' = <<TRUE, "df", Null>>
    /\ UNCHANGED <<call, elapsed, query_thread, timeout_frame>>

\* lines 423-428: future.result raises TimeoutError
TimedOut ==
    /\ caller = "waiting"
    /\ query_thread = "running"
    /\ elapsed >= call.timeout
    /\ caller' = IF call.engine THEN "cancelling" ELSE "leaving"
    /\ UNCHANGED <<call, elapsed, query_thread, returned, timeout_frame>>

\* lines 428-468: pg_cancel_backend on the active backends, two seconds,
\* pg_terminate_backend on those still active; an error is logged
CancelQuery ==
    /\ caller = "cancelling"
    /\ caller' = "leaving"
    /\ elapsed' = elapsed + CancelWait
    /\ query_thread' = IF call.cancel = "stops" THEN "done" ELSE query_thread
    /\ UNCHANGED <<call, returned, timeout_frame>>

\* lines 470-471 inside the with block of line 418: the return statement
\* leaves the block, whose exit is executor.shutdown(wait=True): it joins
\* the thread of the query, and only then the caller has its tuple
LeaveWithBlock ==
    /\ caller = "leaving"
    /\ query_thread = "done"
    /\ caller' = "returned"
    /\ returned' = <<FALSE, Null, TimeoutMessage>>
    /\ UNCHANGED <<call, elapsed, query_thread, timeout_frame>>

NextTimeout ==
    \/ Submit
    \/ Tick
    \/ QueryEnds
    \/ ReturnResult
    \/ TimedOut
    \/ CancelQuery
    \/ LeaveWithBlock

SpecTimeout == InitTimeout /\ [][NextTimeout]_vars

\* the threads run and time passes: every step that can be taken is taken
SpecTimeoutLive == SpecTimeout /\ WF_vars(NextTimeout)

(***************************************************************************)
(* Properties of execute_query_with_timeout (SpecTimeoutLive).             *)
(***************************************************************************)
\* C22: once the timeout has expired execute_query_with_timeout returns
\* (False, None, timeout message), also for a query that never ends, with or
\* without an engine, whether or not the cancellation stops the query: the
\* caller does not wait for the thread of the query.
C22_ReturnsAfterTimeout ==
    (caller \in {"cancelling", "leaving"}) ~>
        (caller = "returned" /\ returned = <<FALSE, Null, TimeoutMessage>>)

\* what holds: the caller has its tuple only after the thread of the query
\* has ended, and after a timeout the tuple is that of the timeout
ReturnsOnceQueryThreadEnded ==
    (caller = "returned") =>
        /\ query_thread = "done"
        /\ returned \in {<<TRUE, "df", Null>>, <<FALSE, Null, TimeoutMessage>>}

\* what holds: a query that ends, or that the cancellation stops, lets the
\* caller return
ReturnsIfQueryStops ==
    (caller \in {"cancelling", "leaving"}
        /\ (call.ends \/ (call.engine /\ call.cancel = "stops")))
    ~> (caller = "returned")

\* the caller in the exit of the with block, the query running for ever and
\* not cancelled
BlockedOnQueryThread ==
    /\ caller = "leaving"
    /\ query_thread = "running"
    /\ ~call.ends
    /\ (~call.engine \/ call.cancel = "fails")

(***************************************************************************)
(* run_sql_query (sql_executor.py): the text of the generator is split     *)
(* into statements, and every statement goes through the classification   *)
(* of the statement loop and of execute_query_with_timeout.                *)
(***************************************************************************)
\* str.upper()
UpperOfLetter ==
    [c \in {CharAt(LowerLetters, i) : i \in 1..Len(LowerLetters)} |->
        CharAt(UpperLetters, MinOf(Occurrences(LowerLetters, c)))]

UpperCharOf(c) == IF c \in DOMAIN UpperOfLetter THEN UpperOfLetter[c] ELSE c

RECURSIVE UpperText(_)
UpperText(s) ==
    IF Len(s) <= 1 THEN UpperCharOf(s)
    ELSE UpperText(SubSeq(s, 1, Len(s) \div 2)) \o UpperText(SubSeq(s, Len(s) \div 2 + 1, Len(s)))

\* stmt.upper(), line by line
UpperLines(stmt) == [i \in 1..Len(stmt) |-> UpperText(stmt[i])]

\* kw in text, for a keyword without a line break
InLines(text, kw) == \E i \in 1..Len(text) : Occurrences(text[i], kw) # {}

\* sqlparse.format(strip_comments=True), line 73: a line without its comment
WithoutComment(line) == Strip(SplitFirst(line, "--"))

\* sqlparse.split, line 80, and lines 85-89: a statement ends with the ";"
\* that is outside a dollar-quoted body; empty statements are skipped
parse_sql_script(script_content) ==
    LET code == [i \in 1..Len(script_content) |-> WithoutComment(script_content[i])]
        inked == {i \in 1..Len(code) : code[i] # ""}
        \* the lines that open or close a dollar-quoted body
        quotes == {i \in inked : Cardinality(Occurrences(code[i], "$$")) % 2 = 1}
        last == MaxOf(inked)
        ends == {i \in inked :
                    \/ EndsWith(code[i], ";") /\ Cardinality({q \in quotes : q <= i}) % 2 = 0
                    \/ i = last}
        nth(k) == CHOOSE e \in ends : Cardinality({f \in ends : f <= e}) = k
        first(k) == IF k = 1 THEN 1 ELSE nth(k - 1) + 1
    IN  [k \in 1..Cardinality(ends) |->
            SelectSeq(SubSeq(code, first(k), nth(k)), LAMBDA line : line # "")]

DdlKeywords ==
    {"CREATE INDEX", "CREATE TABLE", "CREATE VIEW", "DROP VIEW", "ALTER TABLE", "DROP TABLE",
     "DROP INDEX"}

\* lines 140-143 and 590-593
is_ddl(stmt) == LET upper == UpperLines(stmt) IN \E kw \in DdlKeywords : InLines(upper, kw)

\* line 146
is_do_block(stmt) == StartsWith(UpperText(stmt[1]), "DO $$")

\* lines 188 and 588-589
is_select(stmt) ==
    \/ StartsWith(UpperText(stmt[1]), "SELECT")
    \/ StartsWith(UpperText(stmt[1]), "WITH") /\ InLines(UpperLines(stmt), "SELECT")

\* line 594
is_view_creation(stmt) ==
    LET upper == UpperLines(stmt)
    IN  InLines(upper, "CREATE VIEW") \/ InLines(upper, "CREATE OR REPLACE VIEW")

\* lines 598-600: the name after CREATE [OR REPLACE] VIEW, up to a blank or
\* a parenthesis
ViewNameIn(stmt) ==
    LET heads == {"CREATE OR REPLACE VIEW ", "CREATE VIEW "}
        hits == {<<i, h>> \in (1..Len(stmt)) \X heads : /\ Len(stmt[i]) >= Len(h)
                                                          /\ UpperText(SubSeq(stmt[i], 1, Len(h))) = h}
    IN  IF hits = {} THEN <<>>
        ELSE LET hit == CHOOSE x \in hits : \A y \in hits : x[1] <= y[1]
                 rest == SubSeq(stmt[hit[1]], Len(hit[2]) + 1, Len(stmt[hit[1]]))
                 ends == {j \in 1..Len(rest) : CharAt(rest, j) \in {" ", "("}}
             IN  Some(IF ends = {} THEN rest ELSE SubSeq(rest, 1, MinOf(ends) - 1))

\* execute_query_with_timeout, lines 149-189 and 386-390: the branch of
\* _execute_query a statement takes
ExecutionPath(stmt) ==
    IF is_ddl(stmt) \/ is_do_block(stmt)
    THEN (IF is_do_block(stmt) THEN "raw cursor, autocommit" ELSE "isolation_level AUTOCOMMIT")
    ELSE IF is_select(stmt) THEN "read"
    ELSE "plain execute"

\* what a statement of the generated text is
StatementKind(stmt) ==
    CASE StartsWith(stmt[1], "DO $$") -> "index block"
      [] StartsWith(stmt[1], "DROP VIEW IF EXISTS") -> "drop view"
      [] StartsWith(stmt[1], "CREATE OR REPLACE VIEW payment_analysis_view") -> "create view"
      [] StartsWith(stmt[1], "SELECT") -> "final select"
      [] OTHER -> "other"

InitExecute ==
    /\ phase = "arguments"
    /\ include_reconciliation \in BOOLEAN
    /\ selected_fields = <<>>
    /\ date_filter \in DateFilters
    /\ limit = Null
    /\ return_distinct_orders = FALSE
    /\ validated_select_aliases = <<>>
    /\ query = <<>>
    /\ TablesIdle
    /\ CleanerIdle
    /\ PipelineIdle

runner_frame ==
    <<include_reconciliation, table_vars, generator_vars, cleaner_vars, transformer_vars,
      processor_vars, registry_vars, app_vars, executor_vars>>

\* run_sql_query, lines 524-533
ParseSqlScript ==
    /\ phase = "returned"
    /\ statements' = parse_sql_script(query)
    /\ phase' = "parsed"
    /\ UNCHANGED <<stmt_index, executed, view_created, view_name, runner_frame>>

\* run_sql_query, lines 576-700: one turn of the loop over the statements;
\* the database accepts the statement or not, and the verification query
\* finds the view or not
ExecuteStatement ==
    /\ phase = "parsed"
    /\  LET i == stmt_index + 1
            stmt == statements[i]
            ddl == is_ddl(stmt)
            creation == is_view_creation(stmt)
            found == IF creation THEN ViewNameIn(stmt) ELSE <<>>
            name == IF found # <<>> THEN found ELSE view_name
            \* lines 613-615: the COPY of a SELECT from the view just created
            copied == is_select(stmt) /\ view_created /\ name # <<>>
            path == IF copied THEN "copy" ELSE ExecutionPath(stmt)
            last == i = Len(statements)
        IN  \E success, verified \in BOOLEAN :
            /\ view_name' = name
            /\ executed' = Append(executed, [kind |-> StatementKind(stmt), path |-> path,
                                             success |-> success])
            \* lines 661-674
            /\ view_created' =
                   IF success /\ ~copied /\ ddl /\ creation /\ name # <<>> /\ verified
                   THEN TRUE ELSE view_created
            /\ stmt_index' = i
            \* lines 653-659 and the end of the loop
            /\ phase' = IF last THEN "executed" ELSE "parsed"
    /\ UNCHANGED <<statements, runner_frame>>

NextExecute ==
    \/ GeneratePaymentAnalysisQuery
    \/ ParseSqlScript
    \/ ExecuteStatement

SpecExecute == InitExecute /\ [][NextExecute]_vars

(***************************************************************************)
(* Properties of the execution of the generated text (SpecExecute).        *)
(***************************************************************************)
\* C23: the index block, DROP VIEW IF EXISTS and CREATE OR REPLACE VIEW
\* payment_analysis_view of the generated text are classified as DDL or DO
\* block and executed in autocommit, only the final SELECT is executed as a
\* read, and once the view is created and found the executor has recorded
\* the view as created.
C23_DdlInAutocommit ==
    \A i \in 1..Len(executed) :
        /\ executed[i].kind \in {"index block", "drop view", "create view"} =>
               executed[i].path \in {"raw cursor, autocommit", "isolation_level AUTOCOMMIT"}
        /\ (executed[i].path = "read") = (executed[i].kind = "final select")
        /\ (executed[i].kind = "create view" /\ executed[i].success) =>
               (view_created \/ stmt_index = i)

\* what holds: the generated text is four statements; the index block and
\* DROP VIEW go to the autocommit branches, the final SELECT is read, and
\* CREATE OR REPLACE VIEW is executed as a plain statement and never recorded
GeneratedStatementsExecuted ==
    /\ phase \in {"parsed", "executed"} =>
           /\ Len(statements) = 4
           /\ \A i \in 1..4 : StatementKind(statements[i]) =
                  <<"index block", "drop view", "create view", "final select">>[i]
    /\ \A i \in 1..Len(executed) :
           executed[i].path =
               <<"raw cursor, autocommit", "isolation_level AUTOCOMMIT", "plain execute", "read">>[i]
    /\ ~view_created
    /\ (stmt_index >= 3) => view_name = Some("payment_analysis_view")

\* the view created by a statement the database accepted, and not recorded
ViewCreatedNotRecorded ==
    /\ phase = "executed"
    /\ executed[3].kind = "create view"
    /\ executed[3].success
    /\ ~view_created

====
